---- MODULE Spec2Model ----
(***************************************************************************)
(* Model of the strongSwan VPP plugins.                                    *)
(*                                                                         *)
(*   kernel_vpp_ipsec.c : the SA/tunnel lifecycle manager (add_sa,         *)
(*                        add_policy, del_policy, get_spi)                 *)
(*                                                                         *)
(* Each handler is one action.  Pointers to tunnel_t are indices into the  *)
(* sequence heap; a freed cell keeps its last contents and has live=FALSE. *)
(* A NULL char* is the string NULLSTR, a NULL tunnel_t* is NULL.           *)
(***************************************************************************)
EXTENDS Integers, Sequences, FiniteSets, TLC

----------------------------------------------------------------------------
(* Bounds of the model *)

\* number of tunnel_t records the model lets add_sa allocate
MaxTunnels == 2
\* the count of receiver calls a socket is seen to wait is kept up to this
MaxWait == 2
\* scaled-down width, in bits, of one byte of the SPI word (the word has two)
SpiByteBits == 3
\* scaled-down prime p of get_spi (7 is prime and 7 % 4 = 3, like 268435399)
SpiPrime == 7

----------------------------------------------------------------------------
(* Program constants *)

IPV4_SZ == 4
IF_NAME_PREFIX == "tun-"

NULL == 0
NULLSTR == "<NULL>"

\* status_t values the code returns or compares with
SUCCESS == "SUCCESS"
FAILED == "FAILED"
NOT_FOUND == "NOT_FOUND"
NOT_SUPPORTED == "NOT_SUPPORTED"
\* the handler did not return: the process died in undefined behaviour
NO_RETURN == "NO_RETURN"

\* routes_op_e
ROUTE_DEL == "ROUTE_DEL"
ROUTE_ADD == "ROUTE_ADD"

----------------------------------------------------------------------------
(* Inputs the environment can hand to the handlers *)

\* request ids (reqid) of the SAs the IKE engine negotiates
ReqIds == {1, 2}

\* host addresses as chunks (byte sequences): two IPv4 hosts and one IPv6 host
HostA == <<10, 0, 0, 1>>
HostB == <<10, 0, 0, 2>>
Host6 == [i \in 1..16 |-> IF i = 16 THEN 1 ELSE 0]
Hosts == {HostA, HostB, Host6}
\* the addresses of this host and, for each, the peers it negotiates with
HostL == <<10, 0, 0, 9>>
HostL6 == [i \in 1..16 |-> IF i = 16 THEN 9 ELSE 0]
\* (id->src, id->dst) of an inbound SA: the peer, then this host
SaEndpoints == {<<HostA, HostL>>, <<HostB, HostL>>, <<Host6, HostL6>>}

\* SPIs as they arrive, in network byte order: the local one the daemon got
\* from get_spi (0x01000000) and the peers' (0x64000000 and 0x65000000)
LocalSpis == {16777216}
NetSpis == {1677721600, 1694498816}

Modes == {"MODE_TUNNEL", "MODE_TRANSPORT"}
PolicyDirs == {"POLICY_IN", "POLICY_OUT", "POLICY_FWD"}

KeyOf(n) == [i \in 1..n |-> 171]
\* (encryption algorithm, key) pairs
EncInputs == {<<"ENCR_AES_CBC", KeyOf(16)>>, <<"ENCR_CAMELLIA_CBC", KeyOf(16)>>}
\* (integrity algorithm, key) pairs
IntInputs == {<<"AUTH_HMAC_SHA1_96", KeyOf(20)>>, <<"AUTH_HMAC_SHA1_160", KeyOf(20)>>}

\* what vac->put and vac->del return
VacStatus == {SUCCESS, FAILED}
\* what charon->kernel->add_route and del_route return
AddRouteStatus == {SUCCESS, FAILED, "ALREADY_DONE"}
DelRouteStatus == {SUCCESS, FAILED, NOT_FOUND}
\* outcomes of reading a field of a freed tunnel_t
UBOutcomes == {"benign", "crash"}

----------------------------------------------------------------------------
(* Pure helpers *)

RECURSIVE JoinDotted(_)
JoinDotted(s) ==
    IF Len(s) = 1 THEN ToString(s[1])
    ELSE ToString(s[1]) \o "." \o JoinDotted(Tail(s))

\* chunk_to_ipv4: dotted-quad text of a 4-byte chunk, NULL for any other size
chunk_to_ipv4(address) ==
    IF Len(address) # IPV4_SZ THEN NULLSTR ELSE JoinDotted(address)

HexDigits == <<"0", "1", "2", "3", "4", "5", "6", "7",
               "8", "9", "a", "b", "c", "d", "e", "f">>

RECURSIVE chunk_to_hex(_)
\* chunk_to_hex: two lower-case hex digits per byte
chunk_to_hex(chunk) ==
    IF chunk = <<>> THEN ""
    ELSE HexDigits[(chunk[1] \div 16) + 1] \o HexDigits[(chunk[1] % 16) + 1]
         \o chunk_to_hex(Tail(chunk))

\* the algorithms and key lengths (in bytes) the conversions are tried on
AlgCiphers == {"ENCR_NULL", "ENCR_AES_CBC", "ENCR_3DES", "ENCR_CAMELLIA_CBC"}
AlgKeyLens == {0, 16, 20, 24, 32}
AlgIntegs ==
    {"AUTH_UNDEFINED", "AUTH_HMAC_MD5_96", "AUTH_HMAC_SHA1_96",
     "AUTH_HMAC_SHA2_256_128", "AUTH_HMAC_SHA2_384_192",
     "AUTH_HMAC_SHA2_512_256", "AUTH_HMAC_SHA1_160", "AUTH_AES_XCBC_96"}
AlgKeys == {KeyOf(n) : n \in AlgKeyLens}

\* the keys alone (data->enc_key, data->int_key), for the branch of add_sa
\* that reads no algorithm
EncKeys == {e[2] : e \in EncInputs}
IntKeys == {i[2] : i \in IntInputs}

\* the two conversions, tabulated once over the chunks the model hands in
KeyChunks == EncKeys \cup IntKeys \cup AlgKeys
HexOf == [k \in KeyChunks |-> chunk_to_hex(k)]
AddrChunks == Hosts \cup {ep[1] : ep \in SaEndpoints} \cup {ep[2] : ep \in SaEndpoints}
Ipv4Of == [h \in AddrChunks |-> chunk_to_ipv4(h)]

\* ntohl on a little-endian host: the four bytes of the word reversed
ntohl(x) ==
    (x % 256) * 16777216 + ((x \div 256) % 256) * 65536
    + ((x \div 65536) % 256) * 256 + (x \div 16777216)

\* convert_enc_alg: the engine's cipher id, or FAILED
convert_enc_alg(alg, key) ==
    IF alg = "ENCR_NULL" THEN [rc |-> SUCCESS, vpp_alg |-> "NONE_CRYPTO"]
    ELSE IF alg = "ENCR_AES_CBC" THEN
        CASE Len(key) * 8 = 128 -> [rc |-> SUCCESS, vpp_alg |-> "AES_CBC_128"]
          [] Len(key) * 8 = 192 -> [rc |-> SUCCESS, vpp_alg |-> "AES_CBC_192"]
          [] Len(key) * 8 = 256 -> [rc |-> SUCCESS, vpp_alg |-> "AES_CBC_256"]
          [] OTHER -> [rc |-> FAILED, vpp_alg |-> "unset"]
    ELSE [rc |-> FAILED, vpp_alg |-> "unset"]

\* convert_int_alg: the engine's integrity id, or FAILED
convert_int_alg(alg) ==
    CASE alg = "AUTH_UNDEFINED" -> [rc |-> SUCCESS, vpp_alg |-> "NONE_INTEG"]
      [] alg = "AUTH_HMAC_MD5_96" -> [rc |-> SUCCESS, vpp_alg |-> "MD5_96"]
      [] alg = "AUTH_HMAC_SHA1_96" -> [rc |-> SUCCESS, vpp_alg |-> "SHA1_96"]
      [] alg = "AUTH_HMAC_SHA2_256_128" -> [rc |-> SUCCESS, vpp_alg |-> "SHA_256_128"]
      [] alg = "AUTH_HMAC_SHA2_384_192" -> [rc |-> SUCCESS, vpp_alg |-> "SHA_384_192"]
      [] alg = "AUTH_HMAC_SHA2_512_256" -> [rc |-> SUCCESS, vpp_alg |-> "SHA_512_256"]
      [] OTHER -> [rc |-> FAILED, vpp_alg |-> "unset"]

\* mutant: the remote SPI is not compared
tunnel_equals_addr_only(one, two) ==
    /\ one.dst_addr # NULLSTR
    /\ two.dst_addr # NULLSTR
    /\ one.dst_addr = two.dst_addr

\* tunnel_equals: same remote SPI and same, non-NULL, remote address
tunnel_equals(one, two) ==
    /\ one.dst_spi = two.dst_spi
    /\ one.dst_addr # NULLSTR
    /\ two.dst_addr # NULLSTR
    /\ one.dst_addr = two.dst_addr

----------------------------------------------------------------------------
(* State *)

VARIABLES
    cache,          \* this->cache: request id -> tunnel_t* (half-open records)
    tunnels,        \* this->tunnels: the tunnel_t* stored (each is its own key)
    heap,           \* the tunnel_t records ever allocated, see free_tunnel
    next_index,     \* this->next_index
    manage_routes,  \* this->manage_routes
    alive,          \* FALSE once the process died in undefined behaviour
    last,           \* the last handler call: its arguments and what it returned
    calls,          \* what the last handler call did, in order
    nextspi,        \* this->nextspi
    mixspi,         \* this->mixspi
    issued          \* the SPIs get_spi has returned, oldest first

\* permute, applied to a pair of inputs
VARIABLES
    perm_p,         \* the prime p handed to permute
    perm_x,         \* the first input x
    perm_y,         \* the second input
    perm_out        \* <<permute(x, p), permute(y, p)>> once computed, else <<>>

\* private_socket_vpp_socket_t
VARIABLES
    phase,          \* where socket_vpp_socket_create and the object stand
    port,           \* this->port
    natt,           \* this->natt
    split,          \* this->split
    max_packet,     \* this->max_packet
    is_port_path_registered,    \* this->is_port_path_registered
    is_natt_path_registered,    \* this->is_natt_path_registered
    write_addr,     \* this->write_addr.sun_path
    rr_index,       \* this->rr_index
    ready,          \* per socket: a datagram is queued (poll reports POLLIN)
    reg,            \* the last register_paths pass: its calls and its status
    rx,             \* the last receiver call
    tx,             \* the last sender call
    port_out        \* the last get_port call: its argument and its result

\* convert_enc_alg and convert_int_alg, applied to the algorithms of one SA
VARIABLES
    conv            \* data->enc_alg, enc_key, int_alg of the SA, and the results

\* the threads that call into kernel_vpp_ipsec_t at the same time
VARIABLES
    thr,            \* per thread: where it is in its handler, and its locals
    mutex           \* this->mutex: the thread that holds it, or NULL

regvars == <<cache, tunnels, heap, next_index>>
spivars == <<nextspi, mixspi, issued>>
permvars == <<perm_p, perm_x, perm_y, perm_out>>
sockvars == <<phase, port, natt, split, max_packet, is_port_path_registered,
              is_natt_path_registered, write_addr, rr_index, ready, reg, rx, tx,
              port_out>>
\* the state of the kernel interface (kernel_vpp_ipsec.c)
kernvars == <<cache, tunnels, heap, next_index, manage_routes, alive, last,
              calls, nextspi, mixspi, issued>>
convvars == <<conv>>
thrvars == <<thr, mutex>>
vars == <<kernvars, permvars, sockvars, convvars, thrvars>>

----------------------------------------------------------------------------
(* hashtable_t, as the two tables use it *)

\* mutant: any stored value will do
cache_get_any(c, key) ==
    IF key \in DOMAIN c THEN c[key]
    ELSE IF DOMAIN c # {} THEN c[CHOOSE k \in DOMAIN c : TRUE]
    ELSE NULL

\* cache->get: the value stored under key, or NULL
cache_get(c, key) == IF key \in DOMAIN c THEN c[key] ELSE NULL

\* cache->put: create or replace the entry under key
cache_put(c, key, val) ==
    [k \in DOMAIN c \cup {key} |-> IF k = key THEN val ELSE c[k]]

\* mutant: the entry stays in the table
cache_remove_keeps(c, key) == c

\* cache->remove: the table without the entry under key
cache_remove(c, key) == [k \in DOMAIN c \ {key} |-> c[k]]

\* tunnels->get: the stored tunnel that tunnel_equals the key, or NULL
tunnels_get(tbl, hp, key) ==
    IF \E t \in tbl : tunnel_equals(key, hp[t].t)
    THEN CHOOSE t \in tbl : tunnel_equals(key, hp[t].t)
    ELSE NULL

\* mutant: the entry stays in the table
tunnels_remove_keeps(tbl, hp, key) == tbl

\* tunnels->remove: the table without the entry that equals the key
tunnels_remove(tbl, hp, key) == tbl \ {tunnels_get(tbl, hp, key)}

\* tunnels->put(tunnel, tunnel): create the entry, or replace the equal one
tunnels_put(tbl, hp, t) == (tbl \ {tunnels_get(tbl, hp, hp[t].t)}) \cup {t}

\* free_tunnel: the record's memory is released
free_tunnel(hp, t) == [hp EXCEPT ![t].live = FALSE]

\* mutant: a failed vac->put goes unnoticed
create_tunnel_unchecked(vac_rc) == SUCCESS

\* create_tunnel: what it returns, given what vac->put returned
create_tunnel(vac_rc) == IF vac_rc = FAILED THEN FAILED ELSE SUCCESS

\* delete_tunnel: what it returns, given what vac->del returned
delete_tunnel(vac_rc) == IF vac_rc = FAILED THEN FAILED ELSE SUCCESS

----------------------------------------------------------------------------
(* Bookkeeping of the last call *)

\* the (id->dir, data->type, data->sa present, data->sa->mode) of a policy
Policy(id_dir, type, has_sa, sa_mode) ==
    [dir |-> id_dir, type |-> type, has_sa |-> has_sa, mode |-> sa_mode]
NoPolicy == Policy("", "", FALSE, "")

\* op, rc: the handler and the status it returned (NO_RETURN: it never did)
\* reqid, inbound: data->reqid and data->inbound of add_sa
\* tun, old: the record the call created, took or found, and the one that
\*   was stored under the same key before the call
\* spi, addr: the key (host-order SPI, textual address) the call used
\* gate: for add_sa "mode" (rejected for its mode) or "tunnel"; for a policy
\*   "disabled" (manage_routes off) or what route_gate said
\* pol: the policy handed to add_policy or del_policy
LastRec(op, rc, reqid, inbound, tun, old, spi, addr, gate, pol) ==
    [op |-> op, rc |-> rc, reqid |-> reqid, inbound |-> inbound, tun |-> tun,
     old |-> old, spi |-> spi, addr |-> addr, gate |-> gate, pol |-> pol]

Call(fn, arg, rc) == [fn |-> fn, arg |-> arg, rc |-> rc]

\* a handler that returns rc and touches nothing
ReturnOnly(rec) ==
    /\ last' = rec
    /\ calls' = <<>>
    /\ UNCHANGED <<regvars, alive>>

----------------------------------------------------------------------------
(* The parts of the state a specification leaves alone *)

\* a host_t: address family, address bytes and port
Host(family, addr, hport) == [family |-> family, addr |-> addr, port |-> hport]
NoHost == Host("", <<>>, 0)

\* a packet_t: source, destination and data; set is FALSE for no packet
Packet(src, dst, data) == [set |-> TRUE, src |-> src, dst |-> dst, data |-> data]
NoPacket == [set |-> FALSE, src |-> NoHost, dst |-> NoHost, data |-> <<>>]

\* a register_paths pass: the status it returned and the register_punt_socket
\* calls it made
RegRec(rc, cs) == [rc |-> rc, calls |-> cs]
NoReg == RegRec("", <<>>)

\* a receiver call: seq alternates from call to call; polled: poll returned
\* events; rc: the status returned (NO_RETURN: none); ri: the socket recvmsg
\* was called on (-1: none); before: rr_index before the call; revents: the
\* sockets poll reported readable; dgram: the datagram recvmsg delivered;
\* out: the packet stored in *out.  Per socket, over the calls so far:
\* waited, the calls that read a datagram from another socket since this one
\* became readable or was last read, and tried, the calls past poll that
\* called recvmsg on another socket since this one became readable or was
\* last tried (both counted up to MaxWait)
RxRec(seq, polled, rc, ri, before, revents, dgram, out, waited, tried) ==
    [seq |-> seq, polled |-> polled, rc |-> rc, ri |-> ri, before |-> before,
     revents |-> revents, dgram |-> dgram, out |-> out, waited |-> waited,
     tried |-> tried]
NoRx == RxRec(0, FALSE, "", -1, 0, {}, <<>>, NoPacket, <<0, 0>>, <<0, 0>>)

\* a sender call: the status it returned, the packet as sender left it and
\* the datagram handed to sendmsg
TxRec(rc, pkt, wire) == [rc |-> rc, pkt |-> pkt, wire |-> wire]
NoTx == TxRec("", NoPacket, <<>>)

\* no permute evaluation
IdlePermute ==
    /\ perm_p = 0
    /\ perm_x = 0
    /\ perm_y = 0
    /\ perm_out = <<>>

\* no socket_vpp_socket_t
IdleSocket ==
    /\ phase = "none"
    /\ port = 0
    /\ natt = 0
    /\ split = FALSE
    /\ max_packet = 0
    /\ is_port_path_registered = FALSE
    /\ is_natt_path_registered = FALSE
    /\ write_addr = NULLSTR
    /\ rr_index = 0
    /\ ready = <<FALSE, FALSE>>
    /\ reg = NoReg
    /\ rx = NoRx
    /\ tx = NoTx
    /\ port_out = <<>>

\* no conversion asked for
IdleConv == conv = <<>>

\* no thread in a handler
IdleThreads ==
    /\ thr = <<>>
    /\ mutex = NULL

\* kernel_vpp_ipsec_t is not in use
IdleKernel ==
    /\ cache = <<>>
    /\ tunnels = {}
    /\ heap = <<>>
    /\ next_index = 0
    /\ manage_routes = TRUE
    /\ nextspi = 0
    /\ mixspi = 0
    /\ issued = <<>>

----------------------------------------------------------------------------
(* Initial state: kernel_vpp_ipsec_create *)

InitRegistry ==
    /\ cache = <<>>
    /\ tunnels = {}
    /\ heap = <<>>
    /\ next_index = 0
    /\ alive = TRUE
    /\ last = LastRec("none", SUCCESS, 0, FALSE, NULL, NULL, 0, NULLSTR, "", NoPolicy)
    /\ calls = <<>>

Init ==
    /\ InitRegistry
    /\ manage_routes \in BOOLEAN
    /\ nextspi = 0
    /\ mixspi = 0
    /\ issued = <<>>
    /\ IdlePermute
    /\ IdleSocket
    /\ IdleConv
    /\ IdleThreads

----------------------------------------------------------------------------
(* add_sa *)

\* the record INIT builds for an inbound SA
NewTunnel(idx, id_src, id_dst, id_spi, e, enc_key, i, int_key) ==
    [if_name |-> IF_NAME_PREFIX \o ToString(idx),
     un_if_name |-> "eth0",
     src_spi |-> ntohl(id_spi),
     dst_spi |-> 0,
     src_addr |-> Ipv4Of[id_dst],
     dst_addr |-> Ipv4Of[id_src],
     enc_alg |-> e.vpp_alg,
     int_alg |-> i.vpp_alg,
     src_enc_key |-> HexOf[enc_key],
     dst_enc_key |-> NULLSTR,
     src_int_key |-> HexOf[int_key],
     dst_int_key |-> NULLSTR]

\* mutant: a cipher add_sa cannot convert is let through
declined_never(e, i) == FALSE

\* lines 506-520: add_sa declines the SA when a conversion failed
declined(e, i) == e.rc # SUCCESS \/ i.rc # SUCCESS

\* the inbound branch, for the algorithms and keys enc and int: build the
\* half-open record and cache it under reqid
add_sa_inbound_of(reqid, enc, int) ==
    LET e == convert_enc_alg(enc[1], enc[2])
        i == convert_int_alg(int[1])
        old == cache_get(cache, reqid)
        ret(rc) == LastRec("add_sa", rc, reqid, TRUE, NULL, old, 0, NULLSTR,
                           "tunnel", NoPolicy)
    IN  IF declined(e, i)
        THEN ReturnOnly(ret(NOT_SUPPORTED))
        ELSE \E if_ok \in BOOLEAN :  \* charon->kernel->get_interface
        IF ~if_ok
        THEN ReturnOnly(ret(FAILED))
        ELSE
            /\ Len(heap) < MaxTunnels
            /\ \E ep \in SaEndpoints, id_spi \in LocalSpis :
               LET t == NewTunnel(next_index, ep[1], ep[2], id_spi,
                                  e, enc[2], i, int[2])
                   p == Len(heap) + 1
                   hp == Append(heap, [live |-> TRUE, t |-> t])
               IN  /\ next_index' = next_index + 1
                   /\ UNCHANGED tunnels
                   /\ IF t.src_addr = NULLSTR \/ t.dst_addr = NULLSTR
                      THEN  \* free_tunnel, then tunnel->src_addr is read
                          \E ub \in UBOutcomes :
                          /\ heap' = free_tunnel(hp, p)
                          /\ cache' = cache
                          /\ alive' = (ub = "benign")
                          /\ calls' = <<Call("free_tunnel", t.if_name, "")>>
                          /\ last' = LastRec("add_sa",
                                 IF ub = "benign" THEN FAILED ELSE NO_RETURN,
                                 reqid, TRUE, p, old, t.src_spi, t.dst_addr,
                                 "tunnel", NoPolicy)
                      ELSE
                          /\ heap' = hp
                          /\ cache' = cache_put(cache, reqid, p)
                          /\ alive' = alive
                          /\ calls' = <<Call("cache.put", t.if_name, "")>>
                          /\ last' = LastRec("add_sa", SUCCESS, reqid, TRUE,
                                             p, old, t.src_spi, t.dst_addr,
                                             "tunnel", NoPolicy)

add_sa_inbound(reqid) ==
    \E enc \in EncInputs, int \in IntInputs : add_sa_inbound_of(reqid, enc, int)

\* the outbound branch: take the half-open record, create the tunnel in the
\* engine and store the record in tunnels
add_sa_outbound(reqid) ==
    LET p == cache_get(cache, reqid)
    IN  IF p = NULL
        THEN ReturnOnly(LastRec("add_sa", NOT_FOUND, reqid, FALSE, NULL, NULL,
                                0, NULLSTR, "tunnel", NoPolicy))
        ELSE
            \E id_spi \in NetSpis, enc_key \in EncKeys, int_key \in IntKeys,
               put_rc \in VacStatus :
            LET t == [heap[p].t EXCEPT !.dst_enc_key = HexOf[enc_key],
                                       !.dst_int_key = HexOf[int_key],
                                       !.dst_spi = ntohl(id_spi)]
                hp == [heap EXCEPT ![p].t = t]
                old == tunnels_get(tunnels, hp, t)
                rc == create_tunnel(put_rc)
            IN  /\ cache' = cache_remove(cache, reqid)
                /\ UNCHANGED <<next_index, alive>>
                /\ last' = LastRec("add_sa", rc, reqid, FALSE, p, old,
                                   t.dst_spi, t.dst_addr, "tunnel", NoPolicy)
                /\ IF rc = FAILED
                   THEN /\ heap' = free_tunnel(hp, p)
                        /\ tunnels' = tunnels
                        /\ calls' = <<Call("cache.remove", t.if_name, ""),
                                      Call("vac.put", t.if_name, put_rc),
                                      Call("free_tunnel", t.if_name, "")>>
                   ELSE /\ heap' = hp
                        /\ tunnels' = tunnels_put(tunnels, hp, p)
                        /\ calls' = <<Call("cache.remove", t.if_name, ""),
                                      Call("vac.put", t.if_name, put_rc),
                                      Call("tunnels.put", t.if_name, "")>>

add_sa ==
    /\ alive
    /\ UNCHANGED <<manage_routes, spivars, permvars, convvars, thrvars, sockvars>>
    /\ \E mode \in Modes, inbound \in BOOLEAN, reqid \in ReqIds :
       IF mode # "MODE_TUNNEL"
       THEN ReturnOnly(LastRec("add_sa", NOT_SUPPORTED, reqid, inbound, NULL,
                               NULL, 0, NULLSTR, "mode", NoPolicy))
       ELSE IF inbound
       THEN add_sa_inbound(reqid)
       ELSE add_sa_outbound(reqid)

\* add_sa for the inbound tunnel-mode SA whose algorithms conv holds
add_sa_conv ==
    /\ alive
    /\ conv.out = <<>>
    /\ UNCHANGED <<manage_routes, spivars, permvars, sockvars, thrvars>>
    /\ conv' = [conv EXCEPT !.out = <<convert_enc_alg(conv.alg, conv.key),
                                      convert_int_alg(conv.int)>>]
    /\ \E reqid \in ReqIds :
       add_sa_inbound_of(reqid, <<conv.alg, conv.key>>, <<conv.int, KeyOf(20)>>)

\* del_sa: nothing to do
del_sa ==
    /\ alive
    /\ UNCHANGED <<manage_routes, spivars, permvars, convvars, thrvars, sockvars>>
    /\ ReturnOnly(LastRec("del_sa", SUCCESS, 0, FALSE, NULL, NULL, 0, NULLSTR,
                          "", NoPolicy))

----------------------------------------------------------------------------
(* add_policy, del_policy *)

\* mutant: the first failure is the one returned
route_del_status_first(route_rc, tunnel_rc) ==
    IF route_rc # SUCCESS THEN route_rc
    ELSE IF tunnel_rc # SUCCESS THEN FAILED ELSE SUCCESS

\* the status vpp_add_del_route returns on the ROUTE_DEL path: del_route's,
\* replaced by FAILED when delete_tunnel did not succeed
route_del_status(route_rc, tunnel_rc) ==
    IF tunnel_rc # SUCCESS THEN FAILED ELSE route_rc

\* mutant: the entry is removed on ROUTE_ADD too
tunnels_after_lookup_removes(tbl, hp, key, op) == tunnels_remove(tbl, hp, key)

\* mutant: remove leaves the entry in the table
tunnels_after_lookup_keeps(tbl, hp, key, op) == tbl

\* the registry step of vpp_add_del_route: get on ROUTE_ADD, remove on ROUTE_DEL
tunnels_after_lookup(tbl, hp, key, op) ==
    IF op = ROUTE_ADD THEN tbl ELSE tunnels_remove(tbl, hp, key)

\* what the route service returns to this operation
RouteStatus(op) == IF op = ROUTE_ADD THEN AddRouteStatus ELSE DelRouteStatus

\* mutant: the direction is checked first
route_gate_dir_first(id_dir, type, has_sa, sa_mode) ==
    IF id_dir # "POLICY_OUT" THEN "ignored"
    ELSE IF type # "POLICY_IPSEC" \/ ~has_sa \/ sa_mode # "MODE_TUNNEL"
    THEN "unsupported"
    ELSE "routed"

\* the two checks vpp_add_del_route starts with: "unsupported" (it returns
\* NOT_SUPPORTED), "ignored" (it returns SUCCESS) or "routed" (it goes on)
route_gate(id_dir, type, has_sa, sa_mode) ==
    IF type # "POLICY_IPSEC" \/ ~has_sa \/ sa_mode # "MODE_TUNNEL"
    THEN "unsupported"
    ELSE IF id_dir # "POLICY_OUT" THEN "ignored" ELSE "routed"

vpp_add_del_route(opname, op, pol) ==
    LET gate == route_gate(pol.dir, pol.type, pol.has_sa, pol.mode)
        early(rc) == LastRec(opname, rc, 0, FALSE, NULL, NULL, 0, NULLSTR,
                             gate, pol)
    IN  IF gate = "unsupported"
        THEN ReturnOnly(early(NOT_SUPPORTED))
        ELSE IF gate = "ignored"
        THEN ReturnOnly(early(SUCCESS))
        ELSE
            \E sa_spi \in NetSpis, data_dst \in Hosts :
            LET _tun == [dst_spi |-> ntohl(sa_spi), dst_addr |-> Ipv4Of[data_dst]]
                ret(rc, tun) == LastRec(opname, rc, 0, FALSE, tun, NULL,
                                        _tun.dst_spi, _tun.dst_addr, gate, pol)
                tunnel == tunnels_get(tunnels, heap, _tun)
                lookup == IF op = ROUTE_ADD THEN "tunnels.get" ELSE "tunnels.remove"
            IN  /\ tunnels' = tunnels_after_lookup(tunnels, heap, _tun, op)
                /\ UNCHANGED <<cache, next_index>>
                /\ IF tunnel = NULL
                   THEN /\ last' = ret(FAILED, NULL)
                        /\ calls' = <<Call(lookup, "", "")>>
                        /\ UNCHANGED <<heap, alive>>
                   ELSE
                   \E route_rc \in RouteStatus(op) :
                   IF op = ROUTE_ADD
                   THEN /\ last' = ret(route_rc, tunnel)
                        /\ calls' = <<Call(lookup, heap[tunnel].t.if_name, ""),
                                      Call("add_route", heap[tunnel].t.if_name, route_rc)>>
                        /\ UNCHANGED <<heap, alive>>
                   ELSE \* free_tunnel, then tunnel->if_name is read for the log
                        \E del_rc \in VacStatus, ub \in UBOutcomes :
                        /\ heap' = free_tunnel(heap, tunnel)
                        /\ alive' = (ub = "benign")
                        /\ last' = ret(IF ub = "benign"
                                       THEN route_del_status(route_rc, delete_tunnel(del_rc))
                                       ELSE NO_RETURN, tunnel)
                        /\ calls' = <<Call(lookup, heap[tunnel].t.if_name, ""),
                                      Call("del_route", heap[tunnel].t.if_name, route_rc),
                                      Call("vac.del", heap[tunnel].t.if_name, del_rc),
                                      Call("free_tunnel", heap[tunnel].t.if_name, "")>>

\* a policy handler when this->manage_routes is off: it returns SUCCESS and
\* reads nothing.  The key its policy names is recorded in last when the
\* policy is one vpp_add_del_route would have routed.
RoutesDisabled(opname, pol) ==
    IF route_gate(pol.dir, pol.type, pol.has_sa, pol.mode) = "routed"
    THEN \E sa_spi \in NetSpis, data_dst \in Hosts :
         ReturnOnly(LastRec(opname, SUCCESS, 0, FALSE, NULL, NULL,
                            ntohl(sa_spi), Ipv4Of[data_dst], "disabled", pol))
    ELSE ReturnOnly(LastRec(opname, SUCCESS, 0, FALSE, NULL, NULL,
                            0, NULLSTR, "disabled", pol))

\* the policies the IKE engine hands in: (data->type, data->sa present,
\* data->sa->mode), in each direction
PolicyKinds ==
    {<<"POLICY_IPSEC", TRUE, "MODE_TUNNEL">>,
     <<"POLICY_IPSEC", TRUE, "MODE_TRANSPORT">>,
     <<"POLICY_IPSEC", FALSE, "">>,
     <<"POLICY_PASS", TRUE, "MODE_TUNNEL">>}
PolicyInputs ==
    {Policy(d, k[1], k[2], k[3]) : d \in PolicyDirs, k \in PolicyKinds}

add_policy ==
    /\ alive
    /\ UNCHANGED <<manage_routes, spivars, permvars, convvars, thrvars, sockvars>>
    /\ \E pol \in PolicyInputs :
       IF manage_routes
       THEN vpp_add_del_route("add_policy", ROUTE_ADD, pol)
       ELSE RoutesDisabled("add_policy", pol)

del_policy ==
    /\ alive
    /\ UNCHANGED <<manage_routes, spivars, permvars, convvars, thrvars, sockvars>>
    /\ \E pol \in PolicyInputs :
       IF manage_routes
       THEN vpp_add_del_route("del_policy", ROUTE_DEL, pol)
       ELSE RoutesDisabled("del_policy", pol)

----------------------------------------------------------------------------
(* destroy *)

RECURSIVE FreeCalls(_, _)
\* the free_tunnel calls an enumeration of the records ts makes, in the order
\* of their addresses
FreeCalls(hp, ts) ==
    IF ts = {} THEN <<>>
    ELSE LET t == CHOOSE x \in ts : \A y \in ts : x <= y
         IN  <<Call("free_tunnel", hp[t].t.if_name, "")>> \o FreeCalls(hp, ts \ {t})

\* mutant: free_tunnels is left out
free_tunnels_none(tbl) == {}

\* free_cache: the records the enumeration of this->cache hands to free_tunnel
free_cache(c) == {c[k] : k \in DOMAIN c}

\* free_tunnels: the records the enumeration of this->tunnels hands to
\* free_tunnel
free_tunnels(tbl) == tbl

\* destroy: free_cache, free_tunnels, then the tables and the object itself.
\* A record handed to free_tunnel that was freed before is freed twice
\* (undefined behaviour).
destroy ==
    /\ alive
    /\ last.op # "destroy"
    /\ UNCHANGED <<manage_routes, next_index, spivars, permvars, convvars,
                   thrvars, sockvars>>
    /\ LET cached == free_cache(cache)
           stored == free_tunnels(tunnels)
           twice == (cached \cap stored)
                    \cup {t \in cached \cup stored : ~heap[t].live}
           rec(rc) == LastRec("destroy", rc, 0, FALSE, NULL, NULL, 0, NULLSTR,
                              "", NoPolicy)
       IN  /\ heap' = [t \in DOMAIN heap |->
                          IF t \in cached \cup stored
                          THEN [heap[t] EXCEPT !.live = FALSE] ELSE heap[t]]
           /\ cache' = <<>>
           /\ tunnels' = {}
           /\ calls' = FreeCalls(heap, cached) \o FreeCalls(heap, stored)
           /\ IF twice = {}
              THEN /\ last' = rec(SUCCESS)
                   /\ UNCHANGED alive
              ELSE \E ub \in UBOutcomes :
                   /\ alive' = (ub = "benign")
                   /\ last' = rec(IF ub = "benign" THEN SUCCESS ELSE NO_RETURN)

----------------------------------------------------------------------------
(* get_spi, on a scaled-down word of two bytes of SpiByteBits bits *)

SpiByte == 2 ^ SpiByteBits
SpiWord == SpiByte * SpiByte
\* 0xc0000000: the two top bits of the word
SpiOffset == 3 * (SpiWord \div 4)

RECURSIVE Xor(_, _, _)
\* a ^ b on n bits
Xor(a, b, n) ==
    IF n = 0 THEN 0
    ELSE ((a + b) % 2) + 2 * Xor(a \div 2, b \div 2, n - 1)

\* htonl on a little-endian host, for the scaled-down word: its bytes reversed
htonl(x) == (x % SpiByte) * SpiByte + (x \div SpiByte)

\* mutant: the upper half of the inputs is not reflected
permute_unfolded(x, p) == ((x % p) * (x % p)) % p

\* permute: the quadratic-residue map, on x reduced modulo p
permute(x, p) ==
    LET xr == x % p
        qr == (xr * xr) % p
    IN  IF xr <= p \div 2 THEN qr ELSE p - qr

\* the value get_spi stores in *spi once ref_get returned counter
spi_value(counter, mix) ==
    htonl((SpiOffset + permute(Xor(counter, mix, 2 * SpiByteBits), SpiPrime)) % SpiWord)

get_spi ==
    /\ alive
    /\ Len(issued) < SpiPrime
    /\ nextspi' = (nextspi + 1) % SpiWord
    /\ issued' = Append(issued, spi_value(nextspi', mixspi))
    /\ UNCHANGED <<regvars, manage_routes, alive, last, calls, mixspi>>
    /\ UNCHANGED <<permvars, convvars, thrvars, sockvars>>

----------------------------------------------------------------------------
(* permute on its own *)

\* primes congruent to 3 modulo 4, as p = 268435399 is
PermutePrimes == {7, 11, 19}

\* permute(x, p) and permute(y, p) are computed
apply_permute ==
    /\ perm_out = <<>>
    /\ perm_out' = <<permute(perm_x, perm_p), permute(perm_y, perm_p)>>
    /\ UNCHANGED <<perm_p, perm_x, perm_y, kernvars, sockvars, convvars, thrvars>>

----------------------------------------------------------------------------
(* socket_vpp_socket_create and the registration thread *)

IKEV2_UDP_PORT == 500
SOCK_PATH_PORT == "/etc/vpp/sock_port_path"
SOCK_PATH_NATT == "/etc/vpp/sock_natt_path"

\* the settings charon.port and charon.port_nat_t
PortSettings == {0, IKEV2_UDP_PORT, 4510}
NattSettings == {0, 4500}
\* the setting charon.max_packet, scaled down to the frames of this model
MaxPackets == {32, 64}
\* what vac->dump_punts hands back: status, number of entries, socket_path of
\* the first one
PuntDumps ==
    {<<FAILED, 0, NULLSTR>>, <<SUCCESS, 0, NULLSTR>>,
     <<SUCCESS, 1, "/tmp/punt-write">>, <<SUCCESS, 1, "<108 or more chars>">>}

\* a call of register_punt_socket and what it returned
PuntCall(pport, path, rc) == [port |-> pport, path |-> path, rc |-> rc]

\* register_punt_socket: the status of vac->update_punt_socket, passed on
register_punt_socket(vac_rc) == IF vac_rc # SUCCESS THEN FAILED ELSE SUCCESS

\* mutant: the flag is set whatever register_punt_socket returned
registered_after_any(flag, status) == TRUE

\* the registered flag after an attempt that returned status
registered_after(flag, status) == IF status = SUCCESS THEN TRUE ELSE flag

\* mutant: the primary socket is registered on every pass
attempts_port_always(flag) == TRUE

\* register_paths attempts the primary socket when it is not registered yet
attempts_port(flag) == ~flag

\* register_paths attempts the NAT-T socket in split mode, when not registered
attempts_natt(is_split, flag) == is_split /\ ~flag

\* mutant: the thread returns after its first pass
thread_returns_always(status) == TRUE

\* socket_vpp_register_thread returns once a pass succeeded
thread_returns(status) == status = SUCCESS

\* lines 511-588: the object is initialised, the sockets are bound and the
\* registration thread is started; the caller then waits in join
socket_vpp_socket_create ==
    /\ phase = "none"
    /\ \E vac \in BOOLEAN, port_set \in PortSettings, natt_set \in NattSettings,
          mp \in MaxPackets :
       /\ port' = port_set
       /\ natt' = natt_set
       /\ max_packet' = mp
       /\ is_port_path_registered' = FALSE
       /\ is_natt_path_registered' = FALSE
       /\ rr_index' = 0
       /\ UNCHANGED <<write_addr, ready, reg, rx, tx, port_out, kernvars, permvars, convvars, thrvars>>
       /\ IF ~vac \/ port_set = 0 \/ natt_set = 0
          THEN /\ split' = FALSE
               /\ phase' = "null"
          ELSE /\ split' = (port_set = IKEV2_UDP_PORT)
               /\ \E rc_port \in VacStatus :
                  IF rc_port # SUCCESS
                  THEN phase' = "null"
                  ELSE IF split'
                  THEN \E rc_natt \in VacStatus :
                       phase' = IF rc_natt # SUCCESS THEN "null" ELSE "registering"
                  ELSE phase' = "registering"

\* one pass of socket_vpp_register_thread: register_paths, with what the
\* engine answers to each registration it is asked for
register_paths_pass(vac_port, vac_natt) ==
    /\ phase = "registering"
    /\ LET try_port == attempts_port(is_port_path_registered)
           st_port == register_punt_socket(vac_port)
           port_failed == try_port /\ st_port # SUCCESS
           try_natt == ~port_failed /\ attempts_natt(split, is_natt_path_registered)
           st_natt == register_punt_socket(vac_natt)
           status == IF port_failed \/ (try_natt /\ st_natt # SUCCESS)
                     THEN FAILED ELSE SUCCESS
           cs == (IF try_port
                  THEN <<PuntCall(port, SOCK_PATH_PORT, st_port)>> ELSE <<>>)
                 \o (IF try_natt
                     THEN <<PuntCall(natt, SOCK_PATH_NATT, st_natt)>> ELSE <<>>)
       IN  /\ is_port_path_registered' =
                 IF try_port
                 THEN registered_after(is_port_path_registered, st_port)
                 ELSE is_port_path_registered
           /\ is_natt_path_registered' =
                 IF try_natt
                 THEN registered_after(is_natt_path_registered, st_natt)
                 ELSE is_natt_path_registered
           /\ reg' = RegRec(status, cs)
           /\ phase' = IF thread_returns(status) THEN "joined" ELSE "sleeping"
    /\ UNCHANGED <<port, natt, split, max_packet, write_addr, rr_index, ready,
                   rx, tx, port_out, kernvars, permvars, convvars, thrvars>>

register_paths ==
    \E vac_port \in VacStatus, vac_natt \in VacStatus :
        register_paths_pass(vac_port, vac_natt)

\* sleep(1) is over: the thread goes round its loop
register_retry ==
    /\ phase = "sleeping"
    /\ phase' = "registering"
    /\ UNCHANGED <<port, natt, split, max_packet, is_port_path_registered,
                   is_natt_path_registered, write_addr, rr_index, ready, reg,
                   rx, tx, port_out, kernvars, permvars, convvars, thrvars>>

\* get_vpp_socket_path: FAILED when dump_punts failed; with no entry the
\* status is the SUCCESS dump_punts returned and *path is left unset
get_vpp_socket_path(dump) ==
    IF dump[1] # SUCCESS THEN [status |-> FAILED, path |-> NULLSTR]
    ELSE IF dump[2] = 0 THEN [status |-> SUCCESS, path |-> NULLSTR]
    ELSE [status |-> SUCCESS, path |-> dump[3]]

\* set_addr_name: FAILED for a path that does not fit sun_path
set_addr_name(path) == IF path = "<108 or more chars>" THEN FAILED ELSE SUCCESS

\* lines 592-616: join has returned; the write path is asked of the engine
socket_vpp_socket_finish ==
    /\ phase = "joined"
    /\ UNCHANGED <<port, natt, split, max_packet, is_port_path_registered,
                   is_natt_path_registered, rr_index, ready, reg, rx, tx,
                   port_out, kernvars, permvars, convvars, thrvars>>
    /\ \E dump \in PuntDumps :
       LET got == get_vpp_socket_path(dump)
       IN  IF got.status # SUCCESS
           THEN /\ phase' = "null_after_dump"
                /\ UNCHANGED write_addr
           ELSE IF got.path = NULLSTR
           THEN \* set_addr_name calls strlen on the NULL write_path
                \E ub \in UBOutcomes :
                /\ phase' = IF ub = "crash" THEN "crashed" ELSE "ready"
                /\ write_addr' = IF ub = "crash" THEN write_addr ELSE ""
           ELSE IF set_addr_name(got.path) # SUCCESS
           THEN /\ phase' = "null_after_dump"
                /\ UNCHANGED write_addr
           ELSE /\ phase' = "ready"
                /\ write_addr' = got.path

\* destroy: the sockets are closed and the object is freed
socket_destroy ==
    /\ phase = "ready"
    /\ phase' = "destroyed"
    /\ ready' = <<FALSE, FALSE>>
    /\ rx' = NoRx
    /\ tx' = NoTx
    /\ port_out' = <<>>
    /\ UNCHANGED <<port, natt, split, max_packet, is_port_path_registered,
                   is_natt_path_registered, write_addr, rr_index, reg,
                   kernvars, permvars, convvars, thrvars>>

----------------------------------------------------------------------------
(* The datagrams of the punt sockets *)

PUNT_L2 == 0
PUNT_IP4_ROUTED == 1
PUNT_IP6_ROUTED == 2
\* sizeof(vpp_packetdesc_t), sizeof(ether_header_t), the UDP header
DESC_SZ == 8
ETHER_SZ == 14
UDP_SZ == 8
\* sizeof(struct ip), sizeof(struct ip6_hdr), IPPROTO_UDP
IP4_SZ == 20
IP6_SZ == 40
IPPROTO_UDP == 17
\* a byte of buf that recvmsg did not write, or a byte past the end of buf
UNINIT == -1

\* a 16-bit value in network byte order
Be16(n) == <<n \div 256, n % 256>>
\* a 32-bit value of less than 256 as the host (little-endian) stores it
Le32(n) == <<n, 0, 0, 0>>
Zeros(n) == [i \in 1..n |-> 0]
\* s without its first n elements (chunk_skip)
chunk_skip(c, n) == IF n >= Len(c) THEN <<>> ELSE SubSeq(c, n + 1, Len(c))

\* vpp_packetdesc_t as it lies in memory: sw_if_index, action
PacketDesc(sw_if_index, action) == Le32(sw_if_index) \o Le32(action)
\* ether_header_t of an IPv4 frame
EtherHeader == <<2, 0, 0, 0, 0, 1, 2, 0, 0, 0, 0, 2, 8, 0>>

\* ip_packet_create_udp_from_data, then get_encoding: the IP header of the
\* hosts' family, the UDP header, the data (checksums are left zero here:
\* receiver does not read them)
ip_packet_create_udp_from_data(src, dst, data) ==
    LET udp == Be16(src.port) \o Be16(dst.port) \o Be16(UDP_SZ + Len(data))
               \o <<0, 0>> \o data
    IN  IF src.family = "AF_INET"
        THEN <<69, 0>> \o Be16(IP4_SZ + Len(udp)) \o <<0, 0, 0, 0, 64, IPPROTO_UDP, 0, 0>>
             \o src.addr \o dst.addr \o udp
        ELSE <<96, 0, 0, 0>> \o Be16(Len(udp)) \o <<IPPROTO_UDP, 64>>
             \o src.addr \o dst.addr \o udp

\* the first n bytes of raw exist and were written by recvmsg
Defined(raw, n) == Len(raw) >= n /\ \A i \in 1..n : raw[i] # UNINIT

\* ip_packet_create: "null" when raw is no IPv4 or IPv6 UDP packet,
\* "indeterminate" when that depends on bytes recvmsg did not write, else
\* the hosts and the payload (the UDP header and what follows it, up to the
\* length the IP header gives)
ip_packet_create(raw) ==
    LET none(k) == [kind |-> k, src |-> NoHost, dst |-> NoHost, payload |-> <<>>]
        version == raw[1] \div 16
        hdr == IF version = 4 THEN IP4_SZ ELSE IP6_SZ
        alen == IF version = 4 THEN 4 ELSE 16
        total == IF version = 4 THEN raw[3] * 256 + raw[4]
                 ELSE IP6_SZ + raw[5] * 256 + raw[6]
        proto == IF version = 4 THEN raw[10] ELSE raw[7]
        saddr == IF version = 4 THEN SubSeq(raw, 13, 16) ELSE SubSeq(raw, 9, 24)
        daddr == IF version = 4 THEN SubSeq(raw, 17, 20) ELSE SubSeq(raw, 25, 40)
        family == IF version = 4 THEN "AF_INET" ELSE "AF_INET6"
    IN  IF Len(raw) < 1 THEN none("null")
        ELSE IF raw[1] = UNINIT THEN none("indeterminate")
        ELSE IF version \notin {4, 6} THEN none("null")
        ELSE IF Len(raw) < hdr + UDP_SZ THEN none("null")
        ELSE IF ~Defined(raw, hdr + UDP_SZ) THEN none("indeterminate")
        ELSE IF proto # IPPROTO_UDP \/ total < hdr + UDP_SZ \/ total > Len(raw)
        THEN none("null")
        ELSE [kind |-> "packet",
              src |-> Host(family, saddr, raw[hdr + 1] * 256 + raw[hdr + 2]),
              dst |-> Host(family, daddr, raw[hdr + 3] * 256 + raw[hdr + 4]),
              payload |-> SubSeq(raw, hdr + 1, total)]

\* recvmsg into iov: the first DESC_SZ bytes go to packetdesc, the next
\* ETHER_SZ to eh and up to max bytes to buf; what receiver then calls raw is
\* buf with the length recvmsg returned, which counts all three parts
recvmsg_raw(dgram, max) ==
    LET bytes_read == IF Len(dgram) > DESC_SZ + ETHER_SZ + max
                      THEN DESC_SZ + ETHER_SZ + max ELSE Len(dgram)
        in_buf == IF bytes_read > DESC_SZ + ETHER_SZ
                  THEN bytes_read - (DESC_SZ + ETHER_SZ) ELSE 0
    IN  [i \in 1..bytes_read |->
            IF i <= in_buf THEN dgram[DESC_SZ + ETHER_SZ + i] ELSE UNINIT]

\* mutant: the IP encoding is sent without the packetdesc
sender_wire_bare(dst, raw) == raw

\* the datagram sender hands to sendmsg: packetdesc, then the IP encoding
sender_wire(dst, raw) ==
    PacketDesc(0, IF dst.family = "AF_INET" THEN PUNT_IP4_ROUTED
                  ELSE PUNT_IP6_ROUTED) \o raw

\* a datagram as the engine punts it: descriptor, Ethernet header, IP packet
PuntFrame(raw) == PacketDesc(1, PUNT_L2) \o EtherHeader \o raw

----------------------------------------------------------------------------
(* receiver, sender, get_port *)

\* the hosts of the packets sent and received
PeerV4 == Host("AF_INET", <<10, 0, 0, 1>>, 500)
PeerV4b == Host("AF_INET", <<10, 0, 69, 1>>, 4500)
LocalV4 == Host("AF_INET", <<10, 0, 0, 9>>, 500)
LocalV4NoPort == Host("AF_INET", <<10, 0, 0, 9>>, 0)
PeerV6 == Host("AF_INET6", Host6, 4500)
LocalV6 == Host("AF_INET6", HostL6, 4500)
\* (source, destination) of the packets handed to sender
SendPairs == {<<LocalV4, PeerV4>>, <<LocalV4NoPort, PeerV4>>, <<PeerV4b, LocalV4>>,
              <<LocalV6, PeerV6>>}
\* their data
SendData == {<<>>, <<1, 2, 3>>, <<1, 2, 3, 4, 5>>}

\* the datagram w with an Ethernet header put after its descriptor
InsertEther(w) == SubSeq(w, 1, DESC_SZ) \o EtherHeader \o chunk_skip(w, DESC_SZ)

\* a punted datagram whose IP part is no IP packet
BadFrame == PuntFrame(Zeros(IP4_SZ + UDP_SZ))

\* the datagrams a socket may hold: what the engine punts, and what sender
\* wrote last, as it is and with an Ethernet header
RxDatagrams ==
    {PuntFrame(ip_packet_create_udp_from_data(PeerV4, LocalV4, <<7, 7>>)),
     BadFrame}
    \cup (IF tx.rc = SUCCESS THEN {tx.wire, InsertEther(tx.wire)} ELSE {})

\* what receiver hands out when it went on after undefined behaviour
GarbagePacket == Packet(NoHost, NoHost, <<UNINIT>>)

\* mutant: rr_index is not advanced
next_rr_stay(idx, count) == idx

\* mutant: rr_index is advanced without wrapping
next_rr_nowrap(idx, count) == idx + 1

\* lines 178-179: rr_index advanced by one, back to 0 at count
next_rr(idx, count) ==
    LET rr == idx + 1 IN IF (rr % count) # rr THEN 0 ELSE rr

\* lines 181-198: rr when it is readable, else the first other readable
\* socket, else -1
pick_socket(rr, count, revents) ==
    IF rr \in revents THEN rr
    ELSE LET others == {i \in 0..(count - 1) : i # rr /\ i \in revents}
         IN  IF others = {} THEN -1
             ELSE CHOOSE i \in others : \A j \in others : i <= j

\* mutant: rr_index is left at rr when another socket is read
rr_index_after_keep(rr, ri) == rr

\* rr_index when the choice is made: rr (line 179), or the other socket that
\* was picked (line 190)
rr_index_after(rr, ri) == IF ri >= 0 THEN ri ELSE rr

\* the count c of a socket that went unserved once more
Waited(c) == IF c < MaxWait THEN c + 1 ELSE c

\* receiver
receiver ==
    /\ phase = "ready"
    /\ UNCHANGED <<port, natt, split, max_packet, is_port_path_registered,
                   is_natt_path_registered, write_addr, reg, tx, port_out,
                   kernvars, permvars, convvars, thrvars>>
    /\ LET count == IF split THEN 2 ELSE 1
           seq == 1 - rx.seq
           revents == {i \in 0..(count - 1) : ready[i + 1]}
           rr == next_rr(rr_index, count)
           ri == pick_socket(rr, count, revents)
           tried == [s \in 1..2 |->
                        IF ri = s - 1 \/ (s - 1) \notin revents THEN 0
                        ELSE Waited(rx.tried[s])]
           waited(read) == [s \in 1..2 |->
                        IF (read /\ ri = s - 1) \/ (s - 1) \notin revents THEN 0
                        ELSE IF read THEN Waited(rx.waited[s])
                        ELSE rx.waited[s]]
       IN  \E poll_ok \in BOOLEAN :
           IF ~poll_ok
           THEN /\ rx' = RxRec(seq, FALSE, FAILED, -1, rr_index, {}, <<>>,
                               NoPacket, rx.waited, rx.tried)
                /\ UNCHANGED <<phase, rr_index, ready>>
           ELSE
           /\ rr_index' = rr_index_after(rr, ri)
           /\ IF ri < 0
              THEN /\ rx' = RxRec(seq, TRUE, FAILED, ri, rr_index, revents, <<>>,
                                  NoPacket, waited(FALSE), tried)
                   /\ UNCHANGED <<phase, ready>>
              ELSE
              \E recv_ok \in BOOLEAN :
              IF ~recv_ok
              THEN /\ rx' = RxRec(seq, TRUE, FAILED, ri, rr_index, revents, <<>>,
                                  NoPacket, waited(FALSE), tried)
                   /\ UNCHANGED <<phase, ready>>
              ELSE
              \E dgram \in RxDatagrams, more \in BOOLEAN :
              LET packet == ip_packet_create(recvmsg_raw(dgram, max_packet))
                  done(rc, out) == RxRec(seq, TRUE, rc, ri, rr_index, revents,
                                         dgram, out, waited(TRUE), tried)
              IN  /\ ready' = [ready EXCEPT ![ri + 1] = more]
                  /\ IF packet.kind = "packet"
                     THEN /\ rx' = done(SUCCESS,
                                        Packet(packet.src, packet.dst,
                                               chunk_skip(packet.payload, UDP_SZ)))
                          /\ UNCHANGED phase
                     ELSE \* packet is NULL, or made of bytes never written:
                          \* it is used all the same
                          \E ub \in UBOutcomes :
                          IF ub = "crash"
                          THEN /\ rx' = done(NO_RETURN, NoPacket)
                               /\ phase' = "crashed"
                          ELSE /\ rx' = done(SUCCESS, GarbagePacket)
                               /\ UNCHANGED phase

\* a datagram is queued on socket i (0: sock_port, 1: sock_natt)
datagram_arrives ==
    /\ phase = "ready"
    /\ \E i \in 0..(IF split THEN 1 ELSE 0) :
       /\ ~ready[i + 1]
       /\ ready' = [ready EXCEPT ![i + 1] = TRUE]
    /\ UNCHANGED <<phase, port, natt, split, max_packet, is_port_path_registered,
                   is_natt_path_registered, write_addr, rr_index, reg, rx, tx,
                   port_out, kernvars, permvars, convvars, thrvars>>

\* sender
sender ==
    /\ phase = "ready"
    /\ UNCHANGED <<phase, port, natt, split, max_packet, is_port_path_registered,
                   is_natt_path_registered, write_addr, rr_index, ready, reg,
                   rx, port_out, kernvars, permvars, convvars, thrvars>>
    /\ \E pair \in SendPairs, data \in SendData, encoded \in BOOLEAN :
       LET src == IF pair[1].port = 0
                  THEN [pair[1] EXCEPT !.port = port] ELSE pair[1]
           dst == pair[2]
           pkt == Packet(src, dst, data)
       IN  IF ~encoded
           THEN tx' = TxRec(FAILED, pkt, <<>>)
           ELSE \E sent \in BOOLEAN :
                tx' = TxRec(IF sent THEN SUCCESS ELSE FAILED, pkt,
                            sender_wire(dst, ip_packet_create_udp_from_data(
                                                 src, dst, data)))

\* line 326: nat ? this->split ? this->port : this->natt : this->port
get_port(nat, is_split, p_port, p_natt) ==
    IF nat THEN (IF is_split THEN p_port ELSE p_natt) ELSE p_port

socket_get_port ==
    /\ phase = "ready"
    /\ \E nat \in BOOLEAN :
       port_out' = <<nat, get_port(nat, split, port, natt)>>
    /\ UNCHANGED <<phase, port, natt, split, max_packet, is_port_path_registered,
                   is_natt_path_registered, write_addr, rr_index, ready, reg,
                   rx, tx, kernvars, permvars, convvars, thrvars>>

----------------------------------------------------------------------------
(* add_sa, add_policy and del_policy, called by several threads at once.   *)
(* Each thread runs one handler at a time, one statement group per step:   *)
(* pc names the statement it executes next.  A heap cell carries made, the *)
(* number of times its record was handed to vac->put, tunnels->put,        *)
(* del_route, vac->del and free_tunnel.                                    *)

MaxThreads == 2
Threads == 1..MaxThreads

\* the SAs and policies the threads are called with
ThrReqIds == {1}
ThrSpis == {1677721600}
ThrEndpoints == {<<HostA, HostL>>, <<Host6, HostL6>>}
ThrEncs == {<<"ENCR_AES_CBC", KeyOf(16)>>, <<"ENCR_3DES", KeyOf(24)>>}
ThrInts == {<<"AUTH_HMAC_SHA1_96", KeyOf(20)>>}
ThrPeers == {HostA}
ThrRouteStatus == {SUCCESS, FAILED}

\* a thread outside every handler
\* op, inbound: the handler it is in, or was in last
\* reqid, ep, enc, int: the arguments of add_sa
\* key: _tun of vpp_add_del_route
\* tunnel: the local variable tunnel
\* idx: the value of this->next_index the call took, -1 when it took none
\* rc: what the last call returned; fail: the statement that made it fail
\* did: the engine, route and free_tunnel calls of the call, in order
IdleThread ==
    [pc |-> "idle", op |-> "none", inbound |-> FALSE, reqid |-> 0, ep |-> <<>>,
     enc |-> <<>>, int |-> <<>>, key |-> <<>>, tunnel |-> NULL, idx |-> -1,
     rc |-> "", fail |-> "", did |-> <<>>]

NoneMade == [vac_put |-> 0, tunnels_put |-> 0, del_route |-> 0, vac_del |-> 0,
             free_tunnel |-> 0]

\* one more call of fn for the record t
Made(hp, t, fn) == [hp EXCEPT ![t].made[fn] = @ + 1]

\* the frame of every thread step
ThreadFrame ==
    UNCHANGED <<manage_routes, last, calls, spivars, permvars, sockvars, convvars>>

\* the handler returns rc: its locals are gone
thr_return(self, rc, fail) ==
    [thr EXCEPT ![self] = [IdleThread EXCEPT !.op = thr[self].op,
                                             !.inbound = thr[self].inbound,
                                             !.did = thr[self].did,
                                             !.rc = rc, !.fail = fail]]

\* a statement that reads a field of *tunnel: when the record was released
\* before, the read is undefined behaviour
use_tunnel(self, after) ==
    IF heap[thr[self].tunnel].live
    THEN /\ thr' = after
         /\ alive' = alive
    ELSE \E ub \in UBOutcomes :
         /\ alive' = (ub = "benign")
         /\ thr' = IF ub = "benign" THEN after
                   ELSE [thr EXCEPT ![self].pc = "crashed"]

\* the statements that take the mutex, and the statement behind each
LockPcs == {"lock_index", "lock_cache_put", "lock_cache_remove",
            "lock_tunnels_put", "lock_lookup"}
Locked(pc) ==
    CASE pc = "lock_index" -> "next_index"
      [] pc = "lock_cache_put" -> "cache_put"
      [] pc = "lock_cache_remove" -> "cache_remove"
      [] pc = "lock_tunnels_put" -> "tunnels_put"
      [] pc = "lock_lookup" -> "lookup"

\* mutant: the lock is granted while another thread holds it
lock_granted_always(m) == TRUE

\* mutex->lock returns once no thread holds the mutex
lock_granted(m) == m = NULL

\* mutant: the unlock is forgotten
unlocked_never(self) == self

\* mutex->unlock
unlocked(self) == NULL

\* this->mutex->lock(this->mutex)
mutex_lock(self) ==
    /\ alive
    /\ thr[self].pc \in LockPcs
    /\ lock_granted(mutex)
    /\ mutex' = self
    /\ thr' = [thr EXCEPT ![self].pc = Locked(thr[self].pc)]
    /\ UNCHANGED <<regvars, alive>>
    /\ ThreadFrame

\* add_sa up to its first lock: the mode check, the conversions and
\* get_interface for an inbound SA
thr_add_sa(self) ==
    /\ alive
    /\ thr[self].pc = "idle"
    /\ UNCHANGED <<regvars, alive, mutex>>
    /\ ThreadFrame
    /\ \E mode \in Modes, inbound \in BOOLEAN, reqid \in ThrReqIds :
       LET call == [IdleThread EXCEPT !.op = "add_sa", !.inbound = inbound,
                                      !.reqid = reqid]
           ret(rc, fail) ==
               thr' = [thr EXCEPT ![self] = [call EXCEPT !.rc = rc, !.fail = fail]]
       IN  IF mode # "MODE_TUNNEL"
           THEN ret(NOT_SUPPORTED, "mode")
           ELSE IF ~inbound
           THEN thr' = [thr EXCEPT ![self] = [call EXCEPT !.pc = "lock_cache_remove"]]
           ELSE \E enc \in ThrEncs, int \in ThrInts :
                IF declined(convert_enc_alg(enc[1], enc[2]), convert_int_alg(int[1]))
                THEN ret(NOT_SUPPORTED, "algorithm")
                ELSE \E if_ok \in BOOLEAN :  \* charon->kernel->get_interface
                IF ~if_ok
                THEN ret(FAILED, "get_interface")
                ELSE
                    /\ Len(heap) + Cardinality({t \in Threads :
                           thr[t].pc \in {"lock_index", "next_index",
                                         "next_index_store", "INIT"}})
                         < MaxTunnels
                    /\ \E ep \in ThrEndpoints :
                       thr' = [thr EXCEPT ![self] =
                                  [call EXCEPT !.pc = "lock_index", !.ep = ep,
                                               !.enc = enc, !.int = int]]

\* this->next_index++ in the snprintf of if_name: the load
thr_next_index(self) ==
    /\ alive
    /\ thr[self].pc = "next_index"
    /\ thr' = [thr EXCEPT ![self].pc = "next_index_store", ![self].idx = next_index]
    /\ UNCHANGED <<regvars, alive, mutex>>
    /\ ThreadFrame

\* this->next_index++: the store of the incremented value, and the unlock
thr_next_index_store(self) ==
    /\ alive
    /\ thr[self].pc = "next_index_store"
    /\ next_index' = thr[self].idx + 1
    /\ thr' = [thr EXCEPT ![self].pc = "INIT"]
    /\ mutex' = unlocked(self)
    /\ UNCHANGED <<cache, tunnels, heap, alive>>
    /\ ThreadFrame

\* INIT(tunnel, ...) and the test of the two addresses
thr_INIT(self) ==
    /\ alive
    /\ thr[self].pc = "INIT"
    /\ LET me == thr[self]
           t == NewTunnel(me.idx, me.ep[1], me.ep[2],
                          CHOOSE s \in LocalSpis : TRUE,
                          convert_enc_alg(me.enc[1], me.enc[2]), me.enc[2],
                          convert_int_alg(me.int[1]), me.int[2])
           p == Len(heap) + 1
       IN  /\ heap' = Append(heap, [live |-> TRUE, t |-> t, made |-> NoneMade])
           /\ thr' = [thr EXCEPT ![self].tunnel = p,
                                 ![self].pc =
                                     IF t.src_addr = NULLSTR \/ t.dst_addr = NULLSTR
                                     THEN "free_unconverted" ELSE "lock_cache_put"]
    /\ UNCHANGED <<cache, tunnels, next_index, alive, mutex>>
    /\ ThreadFrame

\* free_tunnel(tunnel) when an address did not convert
thr_free_unconverted(self) ==
    /\ alive
    /\ thr[self].pc = "free_unconverted"
    /\ heap' = Made(free_tunnel(heap, thr[self].tunnel), thr[self].tunnel,
                    "free_tunnel")
    /\ thr' = [thr EXCEPT ![self].pc = "log_unconverted",
                          ![self].did = Append(@, "free_tunnel")]
    /\ UNCHANGED <<cache, tunnels, next_index, alive, mutex>>
    /\ ThreadFrame

\* DBG1(..., !tunnel->src_addr ? "src" : "dst"); return FAILED
thr_log_unconverted(self) ==
    /\ alive
    /\ thr[self].pc = "log_unconverted"
    /\ use_tunnel(self, thr_return(self, FAILED, "chunk_to_ipv4"))
    /\ UNCHANGED <<regvars, mutex>>
    /\ ThreadFrame

\* this->cache->put(this->cache, reqid, tunnel), and the unlock
thr_cache_put(self) ==
    /\ alive
    /\ thr[self].pc = "cache_put"
    /\ cache' = cache_put(cache, thr[self].reqid, thr[self].tunnel)
    /\ thr' = [thr EXCEPT ![self].pc = "dump_cached"]
    /\ mutex' = unlocked(self)
    /\ UNCHANGED <<tunnels, heap, next_index, alive>>
    /\ ThreadFrame

\* dump_tunnel(tunnel) after the record was cached; return SUCCESS
thr_dump_cached(self) ==
    /\ alive
    /\ thr[self].pc = "dump_cached"
    /\ use_tunnel(self, thr_return(self, SUCCESS, ""))
    /\ UNCHANGED <<regvars, mutex>>
    /\ ThreadFrame

\* tunnel = this->cache->remove(this->cache, reqid), the unlock, and the
\* test of tunnel
thr_cache_remove(self) ==
    /\ alive
    /\ thr[self].pc = "cache_remove"
    /\ LET p == cache_get(cache, thr[self].reqid)
       IN  /\ cache' = cache_remove(cache, thr[self].reqid)
           /\ thr' = IF p = NULL
                     THEN thr_return(self, NOT_FOUND, "cache_remove")
                     ELSE [thr EXCEPT ![self].pc = "create_tunnel",
                                      ![self].tunnel = p]
    /\ mutex' = unlocked(self)
    /\ UNCHANGED <<tunnels, heap, next_index, alive>>
    /\ ThreadFrame

\* the remote keys and the remote SPI are set, then create_tunnel(tunnel);
\* free_tunnel and return FAILED when it failed
thr_create_tunnel(self) ==
    /\ alive
    /\ thr[self].pc = "create_tunnel"
    /\ \E id_spi \in ThrSpis, enc_key \in EncKeys, int_key \in IntKeys,
          put_rc \in VacStatus :
       LET p == thr[self].tunnel
           t == [heap[p].t EXCEPT !.dst_enc_key = HexOf[enc_key],
                                  !.dst_int_key = HexOf[int_key],
                                  !.dst_spi = ntohl(id_spi)]
           hp == Made([heap EXCEPT ![p].t = t], p, "vac_put")
       IN  IF create_tunnel(put_rc) = FAILED
           THEN /\ heap' = Made(free_tunnel(hp, p), p, "free_tunnel")
                /\ thr' = [thr_return(self, FAILED, "create_tunnel")
                              EXCEPT ![self].did = @ \o <<"vac.put", "free_tunnel">>]
           ELSE /\ heap' = hp
                /\ thr' = [thr EXCEPT ![self].pc = "lock_tunnels_put",
                                      ![self].did = Append(@, "vac.put")]
    /\ UNCHANGED <<cache, tunnels, next_index, alive, mutex>>
    /\ ThreadFrame

\* this->tunnels->put(this->tunnels, tunnel, tunnel), the unlock;
\* return SUCCESS
thr_tunnels_put(self) ==
    /\ alive
    /\ thr[self].pc = "tunnels_put"
    /\ tunnels' = tunnels_put(tunnels, heap, thr[self].tunnel)
    /\ heap' = Made(heap, thr[self].tunnel, "tunnels_put")
    /\ thr' = thr_return(self, SUCCESS, "")
    /\ mutex' = unlocked(self)
    /\ UNCHANGED <<cache, next_index, alive>>
    /\ ThreadFrame

\* add_policy or del_policy, up to the lock of vpp_add_del_route
thr_policy(self) ==
    /\ alive
    /\ thr[self].pc = "idle"
    /\ manage_routes
    /\ UNCHANGED <<regvars, alive, mutex>>
    /\ ThreadFrame
    /\ \E op \in {"add_policy", "del_policy"}, id_dir \in PolicyDirs,
          sa_spi \in ThrSpis, data_dst \in ThrPeers :
       LET gate == route_gate(id_dir, "POLICY_IPSEC", TRUE, "MODE_TUNNEL")
           call == [IdleThread EXCEPT !.op = op]
       IN  IF gate = "ignored"
           THEN thr' = [thr EXCEPT ![self] = [call EXCEPT !.rc = SUCCESS,
                                                         !.fail = "ignored"]]
           ELSE thr' = [thr EXCEPT ![self] =
                           [call EXCEPT !.pc = "lock_lookup",
                                        !.key = [dst_spi |-> ntohl(sa_spi),
                                                 dst_addr |-> Ipv4Of[data_dst]]]]

\* the operation vpp_add_del_route was called with
RouteOp(me) == IF me.op = "add_policy" THEN ROUTE_ADD ELSE ROUTE_DEL

\* tunnel = this->tunnels->get or ->remove(this->tunnels, &_tun), the
\* unlock, and the test of tunnel
thr_lookup(self) ==
    /\ alive
    /\ thr[self].pc = "lookup"
    /\ LET me == thr[self]
           p == tunnels_get(tunnels, heap, me.key)
       IN  /\ tunnels' = tunnels_after_lookup(tunnels, heap, me.key, RouteOp(me))
           /\ thr' = IF p = NULL
                     THEN thr_return(self, FAILED, "lookup")
                     ELSE [thr EXCEPT ![self].pc = "route", ![self].tunnel = p]
    /\ mutex' = unlocked(self)
    /\ UNCHANGED <<cache, heap, next_index, alive>>
    /\ ThreadFrame

\* dump_tunnel(tunnel), then add_route or del_route with tunnel->if_name
thr_route(self) ==
    /\ alive
    /\ thr[self].pc = "route"
    /\ \E route_rc \in ThrRouteStatus :
       LET me == thr[self]
       IN  IF RouteOp(me) = ROUTE_ADD
           THEN /\ use_tunnel(self, [thr EXCEPT ![self].pc = "log_route",
                                                ![self].rc = route_rc,
                                                ![self].did = Append(@, "add_route")])
                /\ heap' = heap
           ELSE /\ use_tunnel(self, [thr EXCEPT ![self].pc = "delete_tunnel",
                                                ![self].rc = route_rc,
                                                ![self].did = Append(@, "del_route")])
                /\ heap' = Made(heap, me.tunnel, "del_route")
    /\ UNCHANGED <<cache, tunnels, next_index, mutex>>
    /\ ThreadFrame

\* delete_tunnel(tunnel), then free_tunnel(tunnel)
thr_delete_tunnel(self) ==
    /\ alive
    /\ thr[self].pc = "delete_tunnel"
    /\ \E del_rc \in VacStatus :
       LET p == thr[self].tunnel
       IN  /\ heap' = Made(Made(free_tunnel(heap, p), p, "vac_del"), p,
                           "free_tunnel")
           /\ use_tunnel(self,
                  [thr EXCEPT ![self].pc = "log_route",
                              ![self].rc = route_del_status(@, delete_tunnel(del_rc)),
                              ![self].did = @ \o <<"vac.del", "free_tunnel">>])
    /\ UNCHANGED <<cache, tunnels, next_index, mutex>>
    /\ ThreadFrame

\* DBG1(..., tunnel->if_name); return rc
thr_log_route(self) ==
    /\ alive
    /\ thr[self].pc = "log_route"
    /\ use_tunnel(self, thr_return(self, thr[self].rc, ""))
    /\ UNCHANGED <<regvars, mutex>>
    /\ ThreadFrame

----------------------------------------------------------------------------
(* Specifications *)

Next ==
    \/ add_sa
    \/ del_sa
    \/ add_policy
    \/ del_policy

Spec == Init /\ [][Next]_vars

\* the SPI generator alone, from every seed init_spi can draw
InitSpi ==
    /\ InitRegistry
    /\ manage_routes = TRUE
    /\ nextspi \in 0..(SpiWord - 1)
    /\ mixspi \in 0..(SpiWord - 1)
    /\ issued = <<>>
    /\ IdlePermute
    /\ IdleSocket
    /\ IdleConv
    /\ IdleThreads

NextSpi == get_spi

SpecSpi == InitSpi /\ [][NextSpi]_vars

\* the handlers, until destroy
NextShutdown ==
    \/ last.op # "destroy" /\ Next
    \/ destroy

SpecShutdown == Init /\ [][NextShutdown]_vars

\* the conversions and the inbound add_sa that uses them, on every
\* combination of the algorithms and key lengths
InitAlg ==
    /\ InitRegistry
    /\ manage_routes = TRUE
    /\ nextspi = 0
    /\ mixspi = 0
    /\ issued = <<>>
    /\ IdlePermute
    /\ IdleSocket
    /\ IdleThreads
    /\ conv \in [alg : AlgCiphers, key : AlgKeys, int : AlgIntegs, out : {<<>>}]

NextAlg == add_sa_conv

SpecAlg == InitAlg /\ [][NextAlg]_vars

\* add_sa, add_policy and del_policy in MaxThreads threads
InitThreads ==
    /\ InitRegistry
    /\ manage_routes = TRUE
    /\ nextspi = 0
    /\ mixspi = 0
    /\ issued = <<>>
    /\ IdlePermute
    /\ IdleSocket
    /\ IdleConv
    /\ thr = [t \in Threads |-> IdleThread]
    /\ mutex = NULL

NextThreads ==
    \E self \in Threads :
        \/ thr_add_sa(self)
        \/ thr_policy(self)
        \/ mutex_lock(self)
        \/ thr_next_index(self)
        \/ thr_next_index_store(self)
        \/ thr_INIT(self)
        \/ thr_free_unconverted(self)
        \/ thr_log_unconverted(self)
        \/ thr_cache_put(self)
        \/ thr_dump_cached(self)
        \/ thr_cache_remove(self)
        \/ thr_create_tunnel(self)
        \/ thr_tunnels_put(self)
        \/ thr_lookup(self)
        \/ thr_route(self)
        \/ thr_delete_tunnel(self)
        \/ thr_log_route(self)

SpecThreads == InitThreads /\ [][NextThreads]_vars


\* permute alone, on every pair of inputs below p
InitPermute ==
    /\ perm_p \in PermutePrimes
    /\ perm_x \in 0..(perm_p - 1)
    /\ perm_y \in 0..(perm_p - 1)
    /\ perm_out = <<>>
    /\ IdleKernel
    /\ alive = TRUE
    /\ last = LastRec("none", SUCCESS, 0, FALSE, NULL, NULL, 0, NULLSTR, "", NoPolicy)
    /\ calls = <<>>
    /\ IdleSocket
    /\ IdleConv
    /\ IdleThreads

NextPermute == apply_permute

SpecPermute == InitPermute /\ [][NextPermute]_vars

\* before socket_vpp_socket_create
InitSocket ==
    /\ IdleSocket
    /\ IdleConv
    /\ IdleThreads
    /\ IdlePermute
    /\ IdleKernel
    /\ alive = TRUE
    /\ last = LastRec("none", SUCCESS, 0, FALSE, NULL, NULL, 0, NULLSTR, "", NoPolicy)
    /\ calls = <<>>

\* the construction of the socket, up to the return of socket_vpp_socket_create
NextCreate ==
    \/ socket_vpp_socket_create
    \/ register_paths
    \/ register_retry
    \/ socket_vpp_socket_finish

\* the socket plugin, from its construction on
NextSocket ==
    \/ NextCreate
    \/ receiver
    \/ datagram_arrives
    \/ socket_get_port
    \/ socket_destroy

SpecSocket == InitSocket /\ [][NextSocket]_vars

\* a socket as socket_vpp_socket_create returns it
InitFrames ==
    /\ phase = "ready"
    /\ port \in PortSettings \ {0}
    /\ natt \in NattSettings \ {0}
    /\ split = (port = IKEV2_UDP_PORT)
    /\ max_packet \in MaxPackets
    /\ is_port_path_registered = TRUE
    /\ is_natt_path_registered = split
    /\ write_addr = "/tmp/punt-write"
    /\ rr_index = 0
    /\ ready = <<FALSE, FALSE>>
    /\ reg = NoReg
    /\ rx = NoRx
    /\ tx = NoTx
    /\ port_out = <<>>
    /\ IdleConv
    /\ IdleThreads
    /\ IdlePermute
    /\ IdleKernel
    /\ alive = TRUE
    /\ last = LastRec("none", SUCCESS, 0, FALSE, NULL, NULL, 0, NULLSTR, "", NoPolicy)
    /\ calls = <<>>

\* packets sent and datagrams received
NextFrames ==
    \/ sender
    \/ datagram_arrives
    \/ receiver

SpecFrames == InitFrames /\ [][NextFrames]_vars

\* sleep(1) returns, and the engine accepts a registration that is tried
\* again and again
SpecSocketFair ==
    /\ SpecSocket
    /\ WF_vars(register_retry)
    /\ WF_vars(socket_vpp_socket_finish)
    /\ SF_vars(register_paths_pass(SUCCESS, SUCCESS))

----------------------------------------------------------------------------
(* Vocabulary of the properties *)

\* lookup_established(spi, addr) in the current state
Established(spi, addr) ==
    tunnels_get(tunnels, heap, [dst_spi |-> spi, dst_addr |-> addr])

\* some record of the table tbl has remote SPI spi and remote address addr
Matches(tbl, hp, spi, addr) ==
    \E t \in tbl : hp[t].t.dst_spi = spi /\ hp[t].t.dst_addr = addr

\* the calls to fn, and those that returned rc, among the calls cs
CallsTo(cs, fn) == {i \in 1..Len(cs) : cs[i].fn = fn}
CallsToRc(cs, fn, rc) == {i \in CallsTo(cs, fn) : cs[i].rc = rc}
EngineCalls(cs) == CallsTo(cs, "vac.put") \cup CallsTo(cs, "vac.del")
RouteCalls(cs) == CallsTo(cs, "add_route") \cup CallsTo(cs, "del_route")

\* l is a call of complete_tunnel: a tunnel-mode outbound add_sa
IsComplete(l) == l.op = "add_sa" /\ l.gate = "tunnel" /\ ~l.inbound
\* l is a call of begin_tunnel: a tunnel-mode inbound add_sa
IsBegin(l) == l.op = "add_sa" /\ l.gate = "tunnel" /\ l.inbound
\* l is a call of on_policy_install or on_policy_remove: add_policy or
\* del_policy with the Route Manager enabled (manage_routes)
IsRouteOp(l) == l.op \in {"add_policy", "del_policy"} /\ l.gate # "disabled"
\* the policy is one of tunnel-mode IPsec
TunnelIpsec(pol) == pol.type = "POLICY_IPSEC" /\ pol.has_sa /\ pol.mode = "MODE_TUNNEL"
Outbound(pol) == TunnelIpsec(pol) /\ pol.dir = "POLICY_OUT"
Returned(l) == l.rc # NO_RETURN

----------------------------------------------------------------------------
(* C1 *)

\* C1: once complete_tunnel for request id r with remote SPI s has succeeded,
\* the record begin_tunnel built is the one found under (s, remote address)
\* and r is no longer half-open; once an outbound policy remove has removed
\* the tunnel under (s, remote address), a lookup of that key finds nothing.
C1_RoundTrip ==
    /\ (IsComplete(last) /\ last.rc = SUCCESS) =>
          /\ last.tun # NULL
          /\ heap[last.tun].live
          /\ heap[last.tun].t.dst_spi = last.spi
          /\ heap[last.tun].t.dst_addr = last.addr
          /\ Established(last.spi, last.addr) = last.tun
          /\ last.reqid \notin DOMAIN cache
    /\ (IsRouteOp(last) /\ last.op = "del_policy" /\ Outbound(last.pol)) =>
          Established(last.spi, last.addr) = NULL

\* an outbound policy remove returned after removing an established tunnel
C1_Witness ==
    /\ IsRouteOp(last) /\ last.op = "del_policy" /\ Returned(last)
    /\ last.tun # NULL
    /\ ~heap[last.tun].live
    /\ heap[last.tun].t.dst_spi = last.spi

----------------------------------------------------------------------------
(* C2 *)

C2_Step ==
    (IsComplete(last') /\ last'.reqid \notin DOMAIN cache) =>
        /\ last'.rc = NOT_FOUND
        /\ EngineCalls(calls') = {}
        /\ cache' = cache
        /\ tunnels' = tunnels
        /\ heap' = heap

\* C2: complete_tunnel for a request id with no half-open record returns
\* NOT_FOUND, calls the engine not at all and leaves cache, tunnels and the
\* records as they were.
C2_NoHalfOpen == [][C2_Step]_vars

\* complete_tunnel found nothing under its request id while other records
\* were half-open and established
C2_Witness ==
    /\ IsComplete(last) /\ last.rc = NOT_FOUND
    /\ DOMAIN cache # {}
    /\ tunnels # {}

----------------------------------------------------------------------------
(* C3 *)

\* C3: begin_tunnel for a request id that is already half-open fails, and the
\* record stored under that request id before is still the one stored.
C3_DuplicateRejected ==
    (IsBegin(last) /\ Returned(last) /\ last.old # NULL) =>
        /\ last.rc # SUCCESS
        /\ cache_get(cache, last.reqid) = last.old

----------------------------------------------------------------------------
(* C4 *)

\* complete_tunnel took the record last.tun and vac->put returned put_rc
CompleteWith(l, cs, put_rc) ==
    IsComplete(l) /\ l.tun # NULL /\ CallsToRc(cs, "vac.put", put_rc) # {}

C4_State ==
    /\ (IsComplete(last) /\ last.tun # NULL) =>
          Cardinality(CallsTo(calls, "vac.put")) = 1
    /\ CompleteWith(last, calls, FAILED) =>
          /\ last.rc = FAILED
          /\ ~heap[last.tun].live
          /\ last.tun \notin tunnels
          /\ last.reqid \notin DOMAIN cache
          /\ \A r \in DOMAIN cache : cache[r] # last.tun
    /\ CompleteWith(last, calls, SUCCESS) =>
          /\ last.rc = SUCCESS
          /\ heap[last.tun].live
          /\ Established(last.spi, last.addr) = last.tun

C4_Step ==
    \* a record enters tunnels only in a complete_tunnel whose create succeeded
    /\ (tunnels' \ tunnels # {}) =>
          /\ CompleteWith(last', calls', SUCCESS)
          /\ tunnels' \ tunnels = {last'.tun}
    \* complete_tunnel again for the request id of a failed one
    /\ (CompleteWith(last, calls, FAILED) /\ IsComplete(last')
        /\ last'.reqid = last.reqid) =>
          last'.rc = NOT_FOUND

\* C4: when the engine create fails, complete_tunnel fails, the record is
\* released and is in neither table, and complete_tunnel for the same request
\* id then returns NOT_FOUND; the record is put into tunnels, under its
\* (remote SPI, remote address), only when the engine create succeeded.
C4_EngineCreate == [](C4_State) /\ [][C4_Step]_vars

\* complete_tunnel failed in the engine create
C4_Witness ==
    /\ CompleteWith(last, calls, FAILED)
    /\ last.rc = FAILED
    /\ ~heap[last.tun].live

----------------------------------------------------------------------------
(* C5 *)

C5_State ==
    IsRouteOp(last) =>
        /\ ~TunnelIpsec(last.pol) => (last.rc = NOT_SUPPORTED /\ calls = <<>>)
        /\ (TunnelIpsec(last.pol) /\ last.pol.dir = "POLICY_IN") =>
              (last.rc = SUCCESS /\ calls = <<>>)
        /\ calls # <<>> => Outbound(last.pol)

C5_Step ==
    (last'.op \in {"add_policy", "del_policy"} /\ ~Outbound(last'.pol)) =>
        UNCHANGED <<cache, tunnels, heap, next_index>>

\* C5: on_policy_install and on_policy_remove look into the registry and
\* call the route service or the engine only for an outbound tunnel-mode
\* IPsec policy; for an inbound one they return SUCCESS, and for a policy
\* that is not IPsec, has no SA or is not tunnel-mode they return
\* NOT_SUPPORTED whatever its direction; in both cases nothing is called and
\* the registry stays as it was.
C5_Gating == [](C5_State) /\ [][C5_Step]_vars

\* an inbound policy that is not tunnel-mode IPsec was declined while a
\* tunnel was established
C5_Witness ==
    /\ IsRouteOp(last)
    /\ ~TunnelIpsec(last.pol)
    /\ last.pol.dir = "POLICY_IN"
    /\ last.rc = NOT_SUPPORTED
    /\ tunnels # {}

----------------------------------------------------------------------------
(* C6 *)

\* this step is on_policy_install of an outbound tunnel-mode policy whose
\* (remote SPI, remote address) matches an established tunnel
C6_Case ==
    /\ last'.op = "add_policy"
    /\ IsRouteOp(last')
    /\ Outbound(last'.pol)
    /\ Matches(tunnels, heap, last'.spi, last'.addr)

\* one route-add call, through the matching tunnel's interface, no other
\* call, and the registry as it was
C6_Effects ==
    /\ Cardinality(CallsTo(calls', "add_route")) = 1
    /\ \A i \in CallsTo(calls', "add_route") :
          \E t \in tunnels :
              /\ heap[t].t.dst_spi = last'.spi
              /\ heap[t].t.dst_addr = last'.addr
              /\ calls'[i].arg = heap[t].t.if_name
    /\ CallsTo(calls', "del_route") = {}
    /\ EngineCalls(calls') = {}
    /\ UNCHANGED <<cache, tunnels, heap, next_index>>
    /\ Matches(tunnels', heap', last'.spi, last'.addr)

\* C6, as claimed: on_policy_install of an outbound tunnel-mode policy with a
\* matching established tunnel issues exactly one route-add call, through
\* that tunnel's interface name, and no engine call, leaves the registry
\* unchanged, and returns SUCCESS.
C6_Original == [][C6_Case => (C6_Effects /\ last'.rc = SUCCESS)]_vars

\* C6, amended: ... and returns the status of that route-add call (SUCCESS
\* when the route was added).
C6_RouteAdd ==
    [][C6_Case => (C6_Effects /\ \A i \in CallsTo(calls', "add_route") :
                                    last'.rc = calls'[i].rc)]_vars

\* on_policy_install found its tunnel, asked for the route and was refused
C6_Witness ==
    /\ last.op = "add_policy" /\ IsRouteOp(last) /\ Outbound(last.pol)
    /\ last.tun # NULL
    /\ Matches(tunnels, heap, last.spi, last.addr)
    /\ CallsToRc(calls, "add_route", FAILED) # {}
    /\ last.rc = FAILED

----------------------------------------------------------------------------
(* C7 *)

\* this step is on_policy_install or on_policy_remove of an outbound
\* tunnel-mode policy whose (remote SPI, remote address) matches no
\* established tunnel
C7_Case ==
    /\ IsRouteOp(last')
    /\ Outbound(last'.pol)
    /\ ~Matches(tunnels, heap, last'.spi, last'.addr)

C7_Effects ==
    /\ RouteCalls(calls') = {}
    /\ EngineCalls(calls') = {}
    /\ UNCHANGED <<cache, tunnels, heap, next_index>>

\* C7, as claimed: such a call fails with NOT_FOUND, calls neither the route
\* service nor the engine and leaves the registry unchanged.
C7_Original == [][C7_Case => (C7_Effects /\ last'.rc = NOT_FOUND)]_vars

\* C7, amended: such a call fails, with the status FAILED, calls neither the
\* route service nor the engine and leaves the registry unchanged.
C7_NoTunnel == [][C7_Case => (C7_Effects /\ last'.rc = FAILED)]_vars

\* the policy named a peer whose tunnel was still half-open
C7_Witness ==
    /\ IsRouteOp(last) /\ Outbound(last.pol)
    /\ last.rc = FAILED
    /\ ~Matches(tunnels, heap, last.spi, last.addr)
    /\ \E r \in DOMAIN cache : heap[cache[r]].t.dst_addr = last.addr

----------------------------------------------------------------------------
(* C8 *)

\* on_policy_remove took an established tunnel out of the registry
C8_Case ==
    /\ last.op = "del_policy" /\ IsRouteOp(last) /\ Outbound(last.pol)
    /\ last.tun # NULL

\* the route deletion and the engine's tunnel deletion were both attempted
C8_BothAttempted ==
    /\ Cardinality(CallsTo(calls, "del_route")) = 1
    /\ Cardinality(CallsTo(calls, "vac.del")) = 1

\* the first failure met, given what del_route and vac->del returned
FirstFailure(route_rc, del_rc) ==
    IF route_rc # SUCCESS THEN route_rc
    ELSE IF del_rc # SUCCESS THEN FAILED ELSE SUCCESS

\* FAILED when the tunnel deletion failed, what del_route returned otherwise
LastFailure(route_rc, del_rc) ==
    IF del_rc # SUCCESS THEN FAILED ELSE route_rc

\* C8, as claimed: on_policy_remove attempts both deletions whatever either
\* returns, and returns the first failure met: the route deletion's status
\* when that failed, else FAILED when the tunnel deletion failed, else
\* SUCCESS.
C8_Original ==
    C8_Case =>
        /\ C8_BothAttempted
        /\ Returned(last) =>
              \A i \in CallsTo(calls, "del_route"), j \in CallsTo(calls, "vac.del") :
                  last.rc = FirstFailure(calls[i].rc, calls[j].rc)

\* C8, amended: on_policy_remove attempts both deletions whatever either
\* returns, and returns FAILED when the tunnel deletion failed, whatever the
\* route deletion returned, and the route deletion's status otherwise.
C8_BestEffort ==
    C8_Case =>
        /\ C8_BothAttempted
        /\ Returned(last) =>
              \A i \in CallsTo(calls, "del_route"), j \in CallsTo(calls, "vac.del") :
                  last.rc = LastFailure(calls[i].rc, calls[j].rc)

\* both deletions failed, the route's with NOT_FOUND
C8_Witness ==
    /\ C8_Case /\ Returned(last)
    /\ CallsToRc(calls, "del_route", NOT_FOUND) # {}
    /\ CallsToRc(calls, "vac.del", FAILED) # {}

----------------------------------------------------------------------------
(* C9 *)

C9_Step ==
    (/\ last'.op = "del_policy"
     /\ Outbound(last'.pol)
     /\ Returned(last')
     /\ Matches(tunnels, heap, last'.spi, last'.addr)) =>
        /\ ~Matches(tunnels', heap', last'.spi, last'.addr)
        /\ [i \in 1..Len(calls') |-> calls'[i].fn] =
              <<"tunnels.remove", "del_route", "vac.del", "free_tunnel">>
        /\ \A i \in 1..Len(calls') :
              \E t \in tunnels :
                  /\ heap[t].t.dst_spi = last'.spi
                  /\ heap[t].t.dst_addr = last'.addr
                  /\ calls'[i].arg = heap[t].t.if_name

\* C9: whenever del_policy returns for an outbound tunnel-mode IPsec policy
\* whose (remote SPI, remote address) matches an established tunnel, that
\* tunnel has left the registry, the route deletion was asked for, the engine
\* was asked to delete the tunnel of that interface name and the record was
\* released, in this order.
C9_Teardown == [][C9_Step]_vars

----------------------------------------------------------------------------
(* C10 *)

\* C10: the SPIs of up to p successive get_spi calls are pairwise distinct,
\* whatever the seed.
C10_SpiUnique ==
    \A i, j \in 1..Len(issued) : i # j => issued[i] # issued[j]

----------------------------------------------------------------------------
(* C11 *)

\* C11: for distinct x and y in [0, p), permute(x, p) and permute(y, p)
\* differ; permute(x, p) lies in [0, p) and is x*x mod p when x <= p/2 and
\* p - (x*x mod p) otherwise.
C11_PermuteOneToOne ==
    perm_out # <<>> =>
        LET qr == (perm_x * perm_x) % perm_p
        IN  /\ perm_x # perm_y => perm_out[1] # perm_out[2]
            /\ perm_out[1] \in 0..(perm_p - 1)
            /\ perm_out[1] = IF 2 * perm_x <= perm_p THEN qr ELSE perm_p - qr

\* two inputs with the same square, one in each half
C11_Witness ==
    /\ perm_out # <<>>
    /\ perm_x # 0
    /\ perm_y = perm_p - perm_x
    /\ perm_out[1] # perm_out[2]

----------------------------------------------------------------------------
(* Vocabulary of the receiver properties *)

\* this step is a call of receiver
ReceiverStep == rx'.seq # rx.seq
\* the call r read a datagram from socket r.ri
Served(r) == r.ri >= 0 /\ r.dgram # <<>>
\* both sockets were readable at the call r
BothReady(r) == r.revents = {0, 1}
\* the number of sockets configured
SockCount == IF split THEN 2 ELSE 1

----------------------------------------------------------------------------
(* C12 *)

\* a call that reads a datagram with two sockets configured, both readable
C12_Case == ReceiverStep /\ split /\ BothReady(rx') /\ Served(rx')

\* successive calls with both sockets readable read from alternate sockets
C12_Alternates == (BothReady(rx) /\ Served(rx)) => rx'.ri # rx.ri

\* C12, as claimed: with two sockets, both always readable, successive
\* receiver calls read from the sockets in strict alternation, and the first
\* reads from the socket rr_index holds before it.
C12_Original == [][C12_Case => (C12_Alternates /\ rx'.ri = rr_index)]_vars

\* C12, amended: ... and the first reads from the socket after the one
\* rr_index holds before it (rr_index + 1 modulo 2).
C12_RoundRobin ==
    [][C12_Case => (C12_Alternates /\ rx'.ri = (rr_index + 1) % 2)]_vars

\* a second call in a row with both sockets readable
C12_Witness ==
    /\ split /\ rx.seq = 0
    /\ BothReady(rx) /\ Served(rx)
    /\ rx.before = 1 /\ rx.ri = 0

----------------------------------------------------------------------------
(* C13 *)

\* a call that got past poll, with two sockets configured
C13_Case == ReceiverStep /\ split /\ rx'.polled

\* the socket after rr_index was not readable and the other one was
C13_FellBack ==
    /\ (rr_index + 1) % 2 \notin rx'.revents
    /\ rr_index \in rx'.revents

\* C13, as claimed: with two sockets, rr_index after a receiver call that
\* gets past poll differs from rr_index before it, whichever socket was read.
C13_Original == [][C13_Case => rr_index' # rr_index]_vars

\* C13, amended: with two sockets, a receiver call that gets past poll leaves
\* rr_index at the socket it called recvmsg on, or one further when no socket
\* was readable; rr_index differs from its value before the call except when
\* the socket after it was not readable and the other one was read, which
\* leaves rr_index as it was.
C13_CursorFollows ==
    [][C13_Case =>
        /\ rx'.ri >= 0 => rr_index' = rx'.ri
        /\ rx'.ri < 0 => rr_index' = (rr_index + 1) % 2
        /\ (rr_index' = rr_index) <=> C13_FellBack]_vars

\* the other socket was read and rr_index is what it was
C13_Witness ==
    /\ split /\ rx.polled
    /\ Served(rx)
    /\ rx.ri = rx.before
    /\ rr_index = rx.before
    /\ (rx.before + 1) % 2 \notin rx.revents

----------------------------------------------------------------------------
(* C14 *)

\* C14, as claimed: a socket that stays readable is read within SockCount
\* successive receiver calls that read a datagram, and rr_index stays in
\* [0, SockCount).
C14_Original ==
    /\ rr_index \in 0..(SockCount - 1)
    /\ \A s \in 1..SockCount : rx.waited[s] < SockCount

\* C14, amended: recvmsg is called on a socket that stays readable within
\* SockCount successive receiver calls that get past poll (the socket is
\* served by that call unless recvmsg fails), and rr_index stays in
\* [0, SockCount).
C14_NoStarvation ==
    /\ rr_index \in 0..(SockCount - 1)
    /\ \A s \in 1..SockCount : rx.tried[s] < SockCount

\* socket 0 is read while socket 1, readable too, waits its one call
C14_Witness ==
    /\ split /\ rx.seq = 0
    /\ Served(rx) /\ rx.ri = 0
    /\ BothReady(rx)
    /\ rx.before = 1
    /\ rx.tried = <<0, 1>>

----------------------------------------------------------------------------
(* C15 *)

\* C15: get_port(nat) returns the NAT-T port exactly when nat is asked for
\* and two sockets are configured (split), and the primary port in every
\* other case.
C15_PortFor ==
    port_out # <<>> =>
        port_out[2] = IF port_out[1] /\ split THEN natt ELSE port

----------------------------------------------------------------------------
(* C17 *)

\* the last receiver call read a datagram whose IP part does not parse
C17_Unparsable ==
    /\ rx.dgram # <<>>
    /\ ip_packet_create(recvmsg_raw(rx.dgram, max_packet)).kind = "null"

\* C17: receiver on a datagram whose IP part cannot be parsed returns FAILED,
\* hands no packet to the caller and does not use the packet it did not get.
C17_InvalidFrame ==
    C17_Unparsable =>
        /\ rx.rc = FAILED
        /\ rx.out = NoPacket
        /\ phase # "crashed"

----------------------------------------------------------------------------
(* C16 *)

\* the last sender call wrote a datagram
C16_Sent == tx.rc = SUCCESS /\ tx.wire # <<>>

\* the last receiver call handed out the packet the last sender call was
\* given (its source port as sender set it)
C16_Recovered == rx.rc = SUCCESS /\ rx.out = tx.pkt /\ phase = "ready"

\* C16, as claimed: the datagram send() writes, fed unchanged to receive(),
\* yields a packet with the same source, destination and payload.
C16_Original == (C16_Sent /\ rx.dgram = tx.wire) => C16_Recovered

\* C16, amended: the datagram send() writes, with a 14-byte Ethernet header
\* put in after its 8-byte descriptor and its IP encoding no longer than
\* max_packet, fed to receive(), yields a packet with the same destination
\* and payload and with the source send() encoded (the primary port in place
\* of a source port 0).
C16_RoundTrip ==
    (/\ C16_Sent
     /\ rx.dgram = InsertEther(tx.wire)
     /\ Len(tx.wire) - DESC_SZ <= max_packet) => C16_Recovered

\* a packet with payload and no source port came back through receive()
C16_Witness ==
    /\ C16_Sent
    /\ rx.dgram = InsertEther(tx.wire)
    /\ Len(tx.wire) - DESC_SZ <= max_packet
    /\ C16_Recovered
    /\ rx.out.data = <<1, 2, 3>>
    /\ rx.out.src = [LocalV4NoPort EXCEPT !.port = port]

----------------------------------------------------------------------------
(* Vocabulary of the registration properties *)

\* this step is a pass of register_paths
RegisterStep == phase = "registering" /\ phase' # "registering"
\* the calls of register_punt_socket a pass made for the port p
CallsFor(r, p) == {i \in 1..Len(r.calls) : r.calls[i].port = p}
\* a pass registered the port p with the engine
Accepted(r, p) == \E i \in CallsFor(r, p) : r.calls[i].rc = SUCCESS
\* a pass was refused the registration of the port p
Refused(r, p) == \E i \in CallsFor(r, p) : r.calls[i].rc # SUCCESS
\* every socket configured is registered
AllRegistered ==
    is_port_path_registered /\ (split => is_natt_path_registered)

----------------------------------------------------------------------------
(* C18 *)

\* C18: a registered flag that is TRUE stays TRUE, and a flag becomes TRUE
\* only in a register_paths pass whose register_punt_socket call for that
\* socket returned SUCCESS.
C18_Monotone ==
    [][/\ is_port_path_registered => is_port_path_registered'
       /\ is_natt_path_registered => is_natt_path_registered'
       /\ (~is_port_path_registered /\ is_port_path_registered') =>
             (RegisterStep /\ Accepted(reg', port))
       /\ (~is_natt_path_registered /\ is_natt_path_registered') =>
             (RegisterStep /\ Accepted(reg', natt))]_vars

\* both sockets registered, the second in a later pass than the first
C18_Witness ==
    /\ split
    /\ AllRegistered
    /\ reg.rc = SUCCESS
    /\ Len(reg.calls) = 1
    /\ reg.calls[1].port = natt

----------------------------------------------------------------------------
(* C19 *)

\* what one pass of register_paths does
C19_Pass ==
    RegisterStep =>
        /\ Len(reg'.calls) <= 2
        /\ \A i \in CallsFor(reg', port) : i = 1 /\ ~is_port_path_registered
        /\ \A i \in CallsFor(reg', natt) :
              /\ split /\ ~is_natt_path_registered
              /\ is_port_path_registered'
              /\ i = Len(reg'.calls)
        /\ Refused(reg', port) =>
              /\ ~is_port_path_registered'
              /\ is_natt_path_registered' = is_natt_path_registered
              /\ CallsFor(reg', natt) = {}
        /\ Refused(reg', natt) => ~is_natt_path_registered'
        /\ (Refused(reg', port) \/ Refused(reg', natt)) => phase' = "sleeping"
        /\ phase' = "joined" => AllRegistered'
        /\ phase' \in {"joined", "sleeping"}

\* what happens when sleep(1) is over
C19_Backoff ==
    phase = "sleeping" =>
        /\ phase' = "registering"
        /\ UNCHANGED <<is_port_path_registered, is_natt_path_registered>>

\* C19: each pass of the registration loop attempts only sockets that are not
\* registered, the primary one first, the NAT-T one only in split mode and
\* only with the primary registered; a refused attempt leaves that socket
\* unregistered and is followed by the backoff and another pass; a registered
\* socket is not registered again; the loop is left only with every
\* configured socket registered.
C19_RetryLoop ==
    /\ [][C19_Pass /\ C19_Backoff]_vars
    /\ (phase = "sleeping") ~> (phase = "registering")

\* a pass that only had the NAT-T socket left to register, after a refusal
C19_Witness ==
    /\ phase = "sleeping"
    /\ split
    /\ is_port_path_registered
    /\ ~is_natt_path_registered
    /\ Len(reg.calls) = 1
    /\ Refused(reg, natt)

----------------------------------------------------------------------------
(* C20 *)

\* socket_vpp_socket_create is past join
C20_PastBarrier == phase \notin {"none", "null", "registering", "sleeping"}

\* C20: socket_vpp_socket_create gets past join (to ask the engine for the
\* write path, and to return the object) only with every configured socket
\* registered; with an engine that accepts a registration asked of it again
\* and again it gets past join; so with a socket that is never registered it
\* does not return.
C20_Barrier ==
    /\ [](C20_PastBarrier => AllRegistered)
    /\ (phase = "registering") ~> C20_PastBarrier

\* the object is returned after a pass that was refused
C20_Witness ==
    /\ phase = "ready"
    /\ AllRegistered
    /\ split
    /\ Len(reg.calls) = 1
    /\ reg.calls[1].port = natt

----------------------------------------------------------------------------
(* C21 *)

\* the documented engine ids
C21_Cipher(alg, bits) ==
    IF alg = "ENCR_NULL" THEN "NONE_CRYPTO"
    ELSE IF alg = "ENCR_AES_CBC" /\ bits \in {128, 192, 256}
    THEN "AES_CBC_" \o ToString(bits)
    ELSE "Unsupported"
C21_Integ(int) ==
    LET ids == [AUTH_UNDEFINED |-> "NONE_INTEG",
                AUTH_HMAC_MD5_96 |-> "MD5_96",
                AUTH_HMAC_SHA1_96 |-> "SHA1_96",
                AUTH_HMAC_SHA2_256_128 |-> "SHA_256_128",
                AUTH_HMAC_SHA2_384_192 |-> "SHA_384_192",
                AUTH_HMAC_SHA2_512_256 |-> "SHA_512_256"]
    IN  IF int \in DOMAIN ids THEN ids[int] ELSE "Unsupported"
\* what a conversion answered
C21_Answer(r) == IF r.rc = SUCCESS THEN r.vpp_alg ELSE "Unsupported"

\* C21: convert_enc_alg gives the documented engine id for the null cipher
\* with any key and for AES-CBC with a key of 128, 192 or 256 bits, and fails
\* for any other cipher or key length, 3DES included; convert_int_alg gives
\* the documented engine id for the six supported integrity algorithms and
\* fails for any other; an inbound add_sa with an algorithm that fails to
\* convert returns NOT_SUPPORTED and stores no half-open record.
C21_Mapping ==
    (conv # <<>> /\ conv.out # <<>>) =>
        LET want_enc == C21_Cipher(conv.alg, Len(conv.key) * 8)
            want_int == C21_Integ(conv.int)
        IN  /\ C21_Answer(conv.out[1]) = want_enc
            /\ C21_Answer(conv.out[2]) = want_int
            /\ conv.out[1].rc \in {SUCCESS, FAILED}
            /\ conv.out[2].rc \in {SUCCESS, FAILED}
            /\ (want_enc = "Unsupported" \/ want_int = "Unsupported") =>
                  /\ last.op = "add_sa" /\ last.inbound
                  /\ last.rc = NOT_SUPPORTED
                  /\ cache = <<>>
                  /\ heap = <<>>
                  /\ next_index = 0
                  /\ calls = <<>>

\* an SA with AES-CBC and a 160-bit key was declined
C21_Witness ==
    /\ conv # <<>> /\ conv.out # <<>>
    /\ conv.alg = "ENCR_AES_CBC" /\ Len(conv.key) = 20
    /\ conv.int = "AUTH_HMAC_SHA2_256_128"
    /\ last.rc = NOT_SUPPORTED

----------------------------------------------------------------------------
(* C22 *)

\* this step is a call of destroy
C22_Case == last'.op = "destroy" /\ last.op # "destroy"

\* the records the two registries hold
C22_Held == {cache[k] : k \in DOMAIN cache} \cup tunnels

\* C22: destroy releases every record left in the half-open and in the
\* established registry exactly once, and calls neither the engine nor the
\* route service.
C22_Shutdown ==
    [][C22_Case =>
        /\ \A t \in C22_Held :
              /\ heap[t].live /\ ~heap'[t].live
              /\ Cardinality({i \in CallsTo(calls', "free_tunnel") :
                                 calls'[i].arg = heap[t].t.if_name}) = 1
        /\ Len(calls') = Cardinality(C22_Held)
        /\ \A t \in DOMAIN heap \ C22_Held : heap'[t] = heap[t]
        /\ EngineCalls(calls') = {} /\ RouteCalls(calls') = {}
        /\ last'.rc = SUCCESS /\ alive'
        /\ cache' = <<>> /\ tunnels' = {}]_vars

\* destroy released two records
C22_Witness ==
    /\ last.op = "destroy" /\ last.rc = SUCCESS
    /\ Len(calls) = 2
    /\ \E t \in DOMAIN heap : heap[t].t.dst_spi # 0 /\ ~heap[t].live
    /\ \E t \in DOMAIN heap : heap[t].t.dst_spi = 0 /\ ~heap[t].live

----------------------------------------------------------------------------
(* C23: the invariant of the two registries *)

\* the records created and not yet released
C23_Live == {t \in DOMAIN heap : heap[t].live}

\* the records this->cache holds
C23_Cached == {cache[k] : k \in DOMAIN cache}

\* local SPI and local keys are set, remote SPI and remote keys are not
C23_HalfOpen(r) ==
    /\ r.src_spi # 0 /\ r.src_enc_key # NULLSTR /\ r.src_int_key # NULLSTR
    /\ r.dst_spi = 0 /\ r.dst_enc_key = NULLSTR /\ r.dst_int_key = NULLSTR

\* every field is set
C23_Populated(r) ==
    /\ r.src_spi # 0 /\ r.src_enc_key # NULLSTR /\ r.src_int_key # NULLSTR
    /\ r.dst_spi # 0 /\ r.dst_enc_key # NULLSTR /\ r.dst_int_key # NULLSTR
    /\ r.src_addr # NULLSTR /\ r.dst_addr # NULLSTR
    /\ r.if_name # NULLSTR /\ r.un_if_name # NULLSTR

\* what the registries hold is live, half-open in the cache and populated in
\* tunnels, where a record is found under its own key; no record is in both
C23_Fields ==
    /\ C23_Cached \cap tunnels = {}
    /\ \A k \in DOMAIN cache :
          /\ heap[cache[k]].live
          /\ C23_HalfOpen(heap[cache[k]].t)
          /\ \A j \in DOMAIN cache : cache[j] = cache[k] => j = k
    /\ \A t \in tunnels :
          /\ heap[t].live
          /\ C23_Populated(heap[t].t)
          /\ tunnels_get(tunnels, heap, heap[t].t) = t

\* C23: every live tunnel record is held in exactly one of the two
\* registries; a record in the half-open registry has a local SPI and local
\* keys but no remote SPI and no remote keys; a record in the established
\* registry has all fields populated and is stored under its own (remote
\* SPI, remote address).
C23_Registry ==
    /\ C23_Live = C23_Cached \cup tunnels
    /\ C23_Fields

\* a record that was cached is live and in no registry, with no call running
C23_Leaked ==
    \E t \in C23_Live : t \notin C23_Cached \cup tunnels

----------------------------------------------------------------------------
(* C27: how a record leaves a registry *)

\* a half-open record leaves this->cache in this step only through the
\* outbound add_sa for its request id, or through destroy
C27_CacheKept ==
    [][\A k \in DOMAIN cache :
          cache[k] \notin C23_Cached' =>
              \/ last'.op = "destroy"
              \/ last'.op = "add_sa" /\ ~last'.inbound /\ last'.reqid = k]_vars

\* an established record leaves this->tunnels in this step only through a
\* del_policy that asks the engine to delete its tunnel, or through destroy
C27_TunnelsKept ==
    [][\A t \in tunnels :
          t \notin tunnels' =>
              \/ last'.op = "destroy"
              \/ /\ last'.op = "del_policy" /\ last'.tun = t
                 /\ \E i \in CallsTo(calls', "vac.del") :
                       calls'[i].arg = heap[t].t.if_name]_vars

\* C27: a tunnel record never silently drops out of a registry: a half-open
\* record leaves the half-open registry only through complete_tunnel for its
\* request id or shutdown, an established record leaves the established
\* registry only through a policy remove that attempts the engine delete or
\* through shutdown.
C27_NoSilentDrop ==
    [][/\ \A k \in DOMAIN cache :
             cache[k] \notin C23_Cached' =>
                 \/ last'.op = "destroy"
                 \/ last'.op = "add_sa" /\ ~last'.inbound /\ last'.reqid = k
       /\ \A t \in tunnels :
             t \notin tunnels' =>
                 \/ last'.op = "destroy"
                 \/ /\ last'.op = "del_policy" /\ last'.tun = t
                    /\ \E i \in CallsTo(calls', "vac.del") :
                          calls'[i].arg = heap[t].t.if_name]_vars

----------------------------------------------------------------------------
(* C24: the half-open record is handed out once *)

\* the thread self takes this step
ThreadStep(self) == thr'[self] # thr[self]

\* the threads whose outbound add_sa holds the record p
C24_Obtained(p) ==
    {self \in Threads :
        thr[self].op = "add_sa" /\ ~thr[self].inbound /\ thr[self].tunnel = p}

\* no record is held by two outbound calls, handed to the engine's create
\* call twice or put into this->tunnels twice, and a record an outbound
\* call holds is no longer cached
C24_State ==
    \A p \in DOMAIN heap :
        /\ Cardinality(C24_Obtained(p)) <= 1
        /\ heap[p].made.vac_put <= 1
        /\ heap[p].made.tunnels_put <= 1
        /\ C24_Obtained(p) # {} => p \notin C23_Cached

\* the outbound call that finds the record under its request id takes it
\* out of the cache and goes on to create_tunnel; the one that finds none
\* returns NOT_FOUND, having called nothing
C24_Step ==
    \A self \in Threads :
        thr[self].pc = "cache_remove" /\ ThreadStep(self) =>
            IF thr[self].reqid \in DOMAIN cache
            THEN /\ thr'[self].tunnel = cache[thr[self].reqid]
                 /\ thr'[self].pc = "create_tunnel"
                 /\ thr[self].reqid \notin DOMAIN cache'
            ELSE /\ thr'[self].pc = "idle"
                 /\ thr'[self].rc = NOT_FOUND
                 /\ thr'[self].did = <<>>
                 /\ heap' = heap /\ tunnels' = tunnels /\ cache' = cache

\* C24: of the outbound add_sa calls that threads make concurrently for one
\* request id after a single inbound add_sa, exactly one obtains the record
\* and issues the engine create call; every other one returns NOT_FOUND
\* without an engine call, and the record is never put into the established
\* registry twice.
C24_Once == []C24_State /\ [][C24_Step]_vars

\* one record was ever created; one thread took it and has had the engine
\* create its tunnel, while the other thread's outbound add_sa for the same
\* request id has returned NOT_FOUND
C24_Witness ==
    /\ Len(heap) = 1
    /\ \E a, b \in Threads :
          /\ a # b
          /\ thr[a].pc = "lock_tunnels_put" /\ thr[a].tunnel = 1
          /\ thr[a].did = <<"vac.put">> /\ heap[1].made.vac_put = 1
          /\ thr[b].op = "add_sa" /\ ~thr[b].inbound /\ thr[b].pc = "idle"
          /\ thr[b].rc = NOT_FOUND /\ thr[b].did = <<>>

----------------------------------------------------------------------------
(* C25: what the mutex covers *)

\* the statements that read or change this->cache, this->tunnels or
\* this->next_index
C25_RegistryPcs == {"next_index", "next_index_store", "cache_put",
                    "cache_remove", "tunnels_put", "lookup"}

\* the statements that call the engine or the route service
C25_ServicePcs == {"create_tunnel", "route", "delete_tunnel"}

\* a thread holds the mutex exactly while it is at a registry statement
C25_State ==
    \A self \in Threads : (mutex = self) <=> (thr[self].pc \in C25_RegistryPcs)

\* a step that changes a map or the counter is taken by the holder of the
\* mutex, and a step of a thread that does not hold it changes none of them
C25_Step ==
    /\ (cache' # cache \/ tunnels' # tunnels \/ next_index' # next_index) =>
           mutex \in Threads /\ ThreadStep(mutex)
    /\ \A self \in Threads :
           ThreadStep(self) /\ mutex # self => UNCHANGED <<cache, tunnels, next_index>>
    /\ \A self \in Threads :
           ThreadStep(self) /\ thr[self].pc \in C25_ServicePcs =>
               mutex # self /\ mutex' # self

\* C25: every read or mutation of the half-open map, the established map and
\* the interface-index counter happens while the registry mutex is held, and
\* the mutex is held only for those steps: no thread holds it during an
\* engine create or delete call or a route-service call, so a thread in such
\* a call never keeps another thread from its registry operation.
C25_Mutex == []C25_State /\ [][C25_Step]_vars

\* one thread is in the engine's create call while another one, holding the
\* mutex, looks a tunnel up
C25_Witness ==
    \E a, b \in Threads :
        /\ thr[a].pc = "create_tunnel"
        /\ thr[b].pc = "lookup" /\ mutex = b

----------------------------------------------------------------------------
(* C26: reads of a record that was released *)

\* the thread self executes the statement at pc, which reads *tunnel
C26_Reads(self, pc) == thr[self].pc = pc /\ ThreadStep(self)

\* the record the thread self works on has not been released
C26_Live(self) == heap[thr[self].tunnel].live

\* add_sa does not read the record after it released it when an address did
\* not convert
C26_OwnFailure ==
    [][\A self \in Threads : C26_Reads(self, "log_unconverted") => C26_Live(self)]_vars

\* del_policy does not read the record after delete_tunnel and free_tunnel
C26_OwnTeardown ==
    [][\A self \in Threads :
          C26_Reads(self, "log_route") /\ thr[self].op = "del_policy" =>
              C26_Live(self)]_vars

\* add_policy and the inbound add_sa do not read a record that another
\* thread has released in the meantime
C26_Borrowed ==
    [][\A self \in Threads :
          \/ C26_Reads(self, "dump_cached")
          \/ thr[self].op = "add_policy" /\ \/ C26_Reads(self, "route")
                                            \/ C26_Reads(self, "log_route")
          => C26_Live(self)]_vars

\* C26: no operation reads a field of a tunnel record after that record has
\* been released, under any interleaving of add_sa, add_policy and
\* del_policy: neither the operation that released it nor a concurrent
\* operation that still holds a reference to it.
C26_NoUseAfterRelease ==
    [][\A self \in Threads :
          \A pc \in {"log_unconverted", "dump_cached", "create_tunnel",
                     "tunnels_put", "route", "delete_tunnel", "log_route"} :
              C26_Reads(self, pc) => C26_Live(self)]_vars

----------------------------------------------------------------------------
(* C28: the indices of the interface names *)

\* the name add_sa builds from the index i
C28_Name(i) == IF_NAME_PREFIX \o ToString(i)

\* the inbound calls that have taken an index and not yet built their record
C28_InFlight == {self \in Threads : thr[self].pc \in {"next_index_store", "INIT"}}

\* no two records and no two calls have the same index, and every index
\* handed out is below the counter
C28_State ==
    /\ \A p, q \in DOMAIN heap :
          p # q => heap[p].t.if_name # heap[q].t.if_name
    /\ \A a, b \in C28_InFlight : a # b => thr[a].idx # thr[b].idx
    /\ \A a \in C28_InFlight, p \in DOMAIN heap :
          C28_Name(thr[a].idx) # heap[p].t.if_name
    /\ \A p \in DOMAIN heap :
          \E i \in 0..(next_index - 1) : heap[p].t.if_name = C28_Name(i)
    /\ \A self \in Threads : thr[self].pc = "INIT" => thr[self].idx < next_index

\* the call that takes an index takes the value of the counter, which is
\* above every index handed out before, and leaves the counter one higher
C28_Step ==
    \A self \in Threads :
        /\ thr[self].pc = "next_index" /\ ThreadStep(self) =>
               thr'[self].idx = next_index
        /\ thr[self].pc = "next_index_store" /\ ThreadStep(self) =>
               next_index' = next_index + 1 /\ thr[self].idx = next_index

\* in this step the inbound add_sa of the thread self returns a failure
C28_Fails(self) ==
    /\ ThreadStep(self)
    /\ thr'[self].pc = "idle"
    /\ thr'[self].op = "add_sa" /\ thr'[self].inbound
    /\ thr'[self].rc \in {NOT_SUPPORTED, FAILED}

\* the call that returns in this step had taken an index
C28_Took(self) == thr[self].pc # "idle" /\ thr[self].idx # -1

\* an inbound add_sa that fails has taken no index
C28_FailureKeeps ==
    \A self \in Threads : C28_Fails(self) => ~C28_Took(self)

\* an inbound add_sa that fails before the counter is touched has taken no
\* index; the one that fails in the address conversion has taken one, which
\* stays behind the counter
C28_FailureTakes ==
    \A self \in Threads :
        C28_Fails(self) =>
            IF thr'[self].fail = "chunk_to_ipv4"
            THEN C28_Took(self) /\ thr[self].idx < next_index'
            ELSE ~C28_Took(self)

----------------------------------------------------------------------------
(* C29: the teardown of a tunnel happens once *)

\* the threads whose del_policy holds the record p
C29_Obtained(p) ==
    {self \in Threads : thr[self].op = "del_policy" /\ thr[self].tunnel = p}

\* no record is held by two del_policy calls, handed to del_route or to the
\* engine's delete call twice, or released twice; the record a del_policy
\* holds is no longer stored, and the call that is through with it has made
\* one call of each
C29_State ==
    /\ \A p \in DOMAIN heap :
          /\ Cardinality(C29_Obtained(p)) <= 1
          /\ heap[p].made.del_route <= 1
          /\ heap[p].made.vac_del <= 1
          /\ heap[p].made.free_tunnel <= 1
          /\ C29_Obtained(p) # {} => p \notin tunnels
    /\ \A self \in Threads :
          thr[self].op = "del_policy" /\ thr[self].pc = "log_route" =>
              /\ thr[self].did = <<"del_route", "vac.del", "free_tunnel">>
              /\ heap[thr[self].tunnel].made.del_route = 1
              /\ heap[thr[self].tunnel].made.vac_del = 1
              /\ heap[thr[self].tunnel].made.free_tunnel = 1
              /\ ~heap[thr[self].tunnel].live

\* the del_policy that finds the record takes it out of this->tunnels; the
\* one that finds none returns rc, having called nothing
C29_Step(rc) ==
    \A self \in Threads :
        thr[self].pc = "lookup" /\ thr[self].op = "del_policy" /\ ThreadStep(self) =>
            LET p == tunnels_get(tunnels, heap, thr[self].key)
            IN  IF p # NULL
                THEN /\ thr'[self].tunnel = p
                     /\ thr'[self].pc = "route"
                     /\ p \notin tunnels'
                ELSE /\ thr'[self].pc = "idle"
                     /\ thr'[self].rc = rc
                     /\ thr'[self].did = <<>>
                     /\ heap' = heap /\ tunnels' = tunnels

\* C29 as stated: of the del_policy calls that threads make concurrently for
\* one (remote SPI, remote address), exactly one obtains the established
\* record, issues one route delete and one engine delete and releases the
\* record once; every other one fails NotFound with no route or engine call.
C29_Original == []C29_State /\ [][C29_Step(NOT_FOUND)]_vars

\* C29, amended: as stated, except that every other call fails with the
\* generic failure status FAILED.
C29_ExactlyOnce == []C29_State /\ [][C29_Step(FAILED)]_vars

\* one tunnel was ever created; one thread has torn it down and is about to
\* return, while the other thread's del_policy for it has returned FAILED
C29_Witness ==
    /\ Len(heap) = 1
    /\ \E a, b \in Threads :
          /\ a # b
          /\ thr[a].op = "del_policy" /\ thr[a].pc = "log_route"
          /\ thr[a].tunnel = 1 /\ heap[1].made.vac_del = 1
          /\ thr[b].op = "del_policy" /\ thr[b].pc = "idle"
          /\ thr[b].rc = FAILED /\ thr[b].fail = "lookup" /\ thr[b].did = <<>>

====
